---- MODULE Spec2Model ----
(***************************************************************************)
(* Grid trading engine: grid levels, order book, balance tracker, order    *)
(* manager, order status tracker, trading strategy and bot controller.     *)
(*                                                                         *)
(* Amounts are integers: a base quantity is a number of exchange steps, a  *)
(* quote amount is a number of (step * price unit), so quantity * price is *)
(* exact and sizing rounds down to the exchange step.                      *)
(***************************************************************************)
EXTENDS Integers, Sequences, FiniteSets, TLC

VARIABLES
    cfg,          \* configuration read at construction (never changes)
    grid_levels,  \* GridManager.grid_levels: level index -> state and pairing links
    order_book,   \* OrderBook: every order added, in insertion order, with its level
    bal,          \* BalanceTracker buckets
    bus,          \* log of the events published on the EventBus
    strat,        \* GridTradingStrategy: _running, loop locals, bars/ticks seen
    bot,          \* GridTradingBot.is_running and the tracker's monitoring task
    exch,         \* exchange side: ids of the orders the exchange reports CLOSED
    tracker,      \* OrderStatusTracker: orders of the running poll not yet queried
    tasks,        \* ORDER_FILLED handlers scheduled or suspended on a submission
    hist,         \* observation of the last operation (for stating properties)
    perp,         \* PerpetualGridManager: price_grids, central_price, grid sets
    mkt           \* one execute_market_order call of the live execution strategy

vars == <<cfg, grid_levels, order_book, bal, bus, strat, bot, exch, tracker, tasks, hist,
          perp, mkt>>

-----------------------------------------------------------------------------
(* Bounds of the exploration *)

\* bars replayed by a backtest / ticks delivered to a live session
MaxSteps == 3
\* polls of the order status tracker
MaxPolls == 2
\* START_BOT events handled
MaxRestarts == 1
\* ORDER_FILLED events delivered a second time
MaxDup == 1
\* limit orders the exchange fills during a live session
MaxFills == 2
\* calls made on a balance tracker that is exercised on its own
MaxCalls == 3
\* _stop calls handled in a session
MaxStops == 2
\* largest max_retries of a live execution strategy
MaxRetries == 3
\* largest quantity of a market order
MaxQuantity == 2

None == 0

-----------------------------------------------------------------------------
(* Small helpers *)

Min(a, b) == IF a <= b THEN a ELSE b
Max(a, b) == IF a >= b THEN a ELSE b

RECURSIVE SelectIdx(_, _, _)
\* the indices i of s, ascending, whose element satisfies Test
SelectIdx(s, Test(_), i) ==
    IF i > Len(s) THEN <<>>
    ELSE (IF Test(s[i]) THEN <<i>> ELSE <<>>) \o SelectIdx(s, Test, i + 1)

-----------------------------------------------------------------------------
(* Grid geometry and level sets (GridManager) *)

\* ARITHMETIC ladder: bottom + i * step, step = (top - bottom) / (num_grids - 1)
price_grids(c) ==
    [i \in 1..c.num_grids |->
        c.bottom + (i - 1) * ((c.top - c.bottom) \div (c.num_grids - 1))]

\* central_price = (top + bottom) / 2, kept doubled so that it stays an integer
central_price_x2(c) == c.top + c.bottom

Levels(c) == 1..c.num_grids

PriceOf(c, l) == c.bottom + (l - 1) * ((c.top - c.bottom) \div (c.num_grids - 1))

\* SIMPLE_GRID: buy set = levels with price <= central price, ascending
sorted_buy_grids(c) ==
    SelectIdx(price_grids(c), LAMBDA p : 2 * p <= central_price_x2(c), 1)

\* SIMPLE_GRID: sell set = levels with price > central price, ascending
sorted_sell_grids(c) ==
    SelectIdx(price_grids(c), LAMBDA p : 2 * p > central_price_x2(c), 1)

\* initial state of every level
initialize_grids_and_levels(c) ==
    [l \in Levels(c) |->
        [state |-> IF 2 * PriceOf(c, l) <= central_price_x2(c)
                   THEN "READY_TO_BUY" ELSE "READY_TO_SELL",
         paired_buy_level |-> None,
         paired_sell_level |-> None]]

get_trigger_price(c) == c.trigger

can_place_order(levels, l, side) ==
    IF side = "BUY" THEN levels[l].state = "READY_TO_BUY"
    ELSE levels[l].state = "READY_TO_SELL"

mark_order_pending(levels, l, side) ==
    [levels EXCEPT ![l].state =
        IF side = "BUY" THEN "WAITING_FOR_BUY_FILL" ELSE "WAITING_FOR_SELL_FILL"]

complete_order(levels, l, side) ==
    [levels EXCEPT ![l].state =
        IF side = "BUY" THEN "READY_TO_SELL" ELSE "READY_TO_BUY"]

\* smallest level above the buy level on which a sell can be placed, or None
get_paired_sell_level(c, levels, l) ==
    LET cand == {s \in Levels(c) : s > l /\ can_place_order(levels, s, "SELL")}
    IN  IF cand = {} THEN None ELSE CHOOSE s \in cand : \A t \in cand : s <= t

\* greatest level below the sell level on which a buy can be placed, or None
get_grid_level_below(c, levels, l) ==
    LET cand == {b \in Levels(c) : b < l /\ can_place_order(levels, b, "BUY")}
    IN  IF cand = {} THEN None ELSE CHOOSE b \in cand : \A t \in cand : b >= t

pair_grid_levels(levels, source, target, pairing_type) ==
    IF pairing_type = "buy"
    THEN [levels EXCEPT ![source].paired_buy_level = target,
                        ![target].paired_sell_level = source]
    ELSE [levels EXCEPT ![source].paired_sell_level = target,
                        ![target].paired_buy_level = source]

\* per-level order size = total balance in quote / number of levels / price
get_order_size_for_grid_level(c, total_balance, current_price) ==
    total_balance \div (c.num_grids * current_price)

\* base quantity that brings the base position to half of the portfolio value
get_initial_order_quantity(fiat, crypto, current_price) ==
    LET crypto_value == crypto * current_price
        target == (fiat + crypto_value) \div 2
        to_allocate == Max(0, Min(target - crypto_value, fiat))
    IN  to_allocate \div current_price

-----------------------------------------------------------------------------
(* FeeCalculator and OrderValidator *)

\* fee = trade value * trading_fee (a percentage here), rounded down
calculate_fee(c, trade_value) == (trade_value * c.fee_pct) \div 100

\* InsufficientBalanceError: quantity * price > balance
buy_quantity_rejected(balance, order_quantity, price) ==
    order_quantity * price > balance

\* InsufficientCryptoBalanceError: quantity > base balance
sell_quantity_rejected(crypto_balance, order_quantity) ==
    order_quantity > crypto_balance

\* the validated quantity (already a whole number of exchange steps)
adjust_and_validate_quantity(order_quantity) == order_quantity

-----------------------------------------------------------------------------
(* BalanceTracker *)

setup_balances(c) ==
    [balance |-> c.initial_balance, crypto_balance |-> 0, total_fees |-> 0,
     reserved_fiat |-> 0, reserved_crypto |-> 0]

\* variant: a fill that costs more than was reserved leaves the main balance alone
buy_filled_shortfall_dropped(c, b, quantity, price) ==
    LET fee == calculate_fee(c, quantity * price)
        total_cost == quantity * price + fee
        reserved == b.reserved_fiat - total_cost
    IN  [b EXCEPT !.reserved_fiat = IF reserved < 0 THEN 0 ELSE reserved,
                  !.crypto_balance = b.crypto_balance + quantity,
                  !.total_fees = b.total_fees + fee]

update_after_buy_order_filled(c, b, quantity, price) ==
    LET fee == calculate_fee(c, quantity * price)
        total_cost == quantity * price + fee
        reserved == b.reserved_fiat - total_cost
    IN  [b EXCEPT !.reserved_fiat = IF reserved < 0 THEN 0 ELSE reserved,
                  !.balance = IF reserved < 0 THEN b.balance + reserved ELSE b.balance,
                  !.crypto_balance = b.crypto_balance + quantity,
                  !.total_fees = b.total_fees + fee]

update_after_sell_order_filled(c, b, quantity, price) ==
    LET fee == calculate_fee(c, quantity * price)
        sale_proceeds == quantity * price - fee
        reserved == b.reserved_crypto - quantity
    IN  [b EXCEPT !.reserved_crypto = IF reserved < 0 THEN 0 ELSE reserved,
                  !.crypto_balance = IF reserved < 0
                                     THEN b.crypto_balance + (0 - reserved)
                                     ELSE b.crypto_balance,
                  !.balance = b.balance + sale_proceeds,
                  !.total_fees = b.total_fees + fee]

\* ORDER_FILLED subscriber of the balance tracker
update_balance_on_order_completion(c, b, order) ==
    IF order.side = "BUY"
    THEN update_after_buy_order_filled(c, b, order.filled, order.price)
    ELSE update_after_sell_order_filled(c, b, order.filled, order.price)

\* raises ValueError (no change) unless the order is CLOSED
update_after_initial_purchase(c, b, order) ==
    IF order.status # "CLOSED" THEN b
    ELSE LET total_cost == order.filled * order.average
             fee == calculate_fee(c, order.amount * order.average)
         IN  [b EXCEPT !.crypto_balance = b.crypto_balance + order.filled,
                       !.balance = b.balance - (total_cost + fee),
                       !.total_fees = b.total_fees + fee]

reserve_buy_raises(b, amount) == b.balance < amount

\* variant: the amount is moved before the balance is compared
reserve_funds_for_buy_unchecked(b, amount) ==
    [b EXCEPT !.reserved_fiat = b.reserved_fiat + amount,
              !.balance = b.balance - amount]

reserve_funds_for_buy(b, amount) ==
    IF reserve_buy_raises(b, amount) THEN b
    ELSE [b EXCEPT !.reserved_fiat = b.reserved_fiat + amount,
                   !.balance = b.balance - amount]

reserve_sell_raises(b, quantity) == b.crypto_balance < quantity

reserve_funds_for_sell(b, quantity) ==
    IF reserve_sell_raises(b, quantity) THEN b
    ELSE [b EXCEPT !.reserved_crypto = b.reserved_crypto + quantity,
                   !.crypto_balance = b.crypto_balance - quantity]

get_adjusted_fiat_balance(b) == b.balance + b.reserved_fiat

get_adjusted_crypto_balance(b) == b.crypto_balance + b.reserved_crypto

get_total_balance_value(b, price) ==
    get_adjusted_fiat_balance(b) + get_adjusted_crypto_balance(b) * price

-----------------------------------------------------------------------------
(* Order and OrderBook *)

\* the Order an execution strategy returns: OPEN for a limit order, CLOSED
\* (fully filled at the given price) for a market order
NewOrder(id, side, type, quantity, price) ==
    [id |-> id, side |-> side, type |-> type, price |-> price, average |-> price,
     amount |-> quantity,
     filled |-> IF type = "MARKET" THEN quantity ELSE 0,
     remaining |-> IF type = "MARKET" THEN 0 ELSE quantity,
     status |-> IF type = "MARKET" THEN "CLOSED" ELSE "OPEN",
     level |-> None]

is_open(order) == order.status = "OPEN"

\* add_order(order, grid_level): level None marks a non-grid order
add_order(orders, order, grid_level) ==
    Append(orders, [order EXCEPT !.level = grid_level])

\* variant: the sell orders are listed before the buy orders
get_open_orders_sells_first(orders) ==
    SelectIdx(orders, LAMBDA o : o.side = "SELL" /\ is_open(o), 1)
    \o SelectIdx(orders, LAMBDA o : o.side = "BUY" /\ is_open(o), 1)

\* ids of the open orders, buy orders first, each side in insertion order
get_open_orders(orders) ==
    SelectIdx(orders, LAMBDA o : o.side = "BUY" /\ is_open(o), 1)
    \o SelectIdx(orders, LAMBDA o : o.side = "SELL" /\ is_open(o), 1)

get_grid_level_for_order(orders, id) == orders[id].level

\* variant: the local status is left as it was
update_order_status_skipped(orders, id, new_status) == orders

update_order_status(orders, id, new_status) ==
    IF id \in DOMAIN orders THEN [orders EXCEPT ![id].status = new_status]
    ELSE orders

-----------------------------------------------------------------------------
(* OrderManager.  An engine value e gathers what the order manager and the  *)
(* balance tracker work on: e.levels, e.orders, e.bal, the bus log e.bus,   *)
(* the fills handed to the balance tracker e.seen and the armings e.arms.   *)

Publish(e, topic, id) == [e EXCEPT !.bus = Append(@, [topic |-> topic, order |-> id])]

NoTask == [kind |-> "none", source |-> None, target |-> None, quantity |-> 0]

\* _place_sell_order after the awaited submission returned sell_order:
\* pair, reserve (may raise after the pairing), mark pending, add to the book
place_sell_order_complete(c, e, buy_level, sell_level, amount) ==
    LET paired == pair_grid_levels(e.levels, buy_level, sell_level, "sell")
        order == NewOrder(Len(e.orders) + 1, "SELL", "LIMIT", amount, PriceOf(c, sell_level))
    IN  IF reserve_sell_raises(e.bal, amount)
        THEN [e EXCEPT !.levels = paired]
        ELSE [e EXCEPT !.levels = mark_order_pending(paired, sell_level, "SELL"),
                       !.bal = reserve_funds_for_sell(e.bal, amount),
                       !.orders = add_order(e.orders, order, sell_level)]

\* _place_buy_order after the awaited submission returned buy_order
place_buy_order_complete(c, e, sell_level, buy_level, amount) ==
    LET paired == pair_grid_levels(e.levels, sell_level, buy_level, "buy")
        price == PriceOf(c, buy_level)
        order == NewOrder(Len(e.orders) + 1, "BUY", "LIMIT", amount, price)
    IN  IF reserve_buy_raises(e.bal, amount * price)
        THEN [e EXCEPT !.levels = paired]
        ELSE [e EXCEPT !.levels = mark_order_pending(paired, buy_level, "BUY"),
                       !.bal = reserve_funds_for_buy(e.bal, amount * price),
                       !.orders = add_order(e.orders, order, buy_level)]

\* the stored paired buy level if a buy can be placed on it, else the fallback
get_or_create_paired_buy_level(c, levels, sell_level) ==
    LET paired == levels[sell_level].paired_buy_level
    IN  IF paired # None /\ can_place_order(levels, paired, "BUY") THEN paired
        ELSE get_grid_level_below(c, levels, sell_level)

\* _handle_buy_order_completion up to the awaited submission of the paired sell
handle_buy_order_completion(c, e, order) ==
    LET done == complete_order(e.levels, order.level, "BUY")
        paired == get_paired_sell_level(c, done, order.level)
        e1 == [e EXCEPT !.levels = done]
    IN  IF paired # None /\ can_place_order(done, paired, "SELL")
           /\ ~sell_quantity_rejected(e.bal.crypto_balance, order.filled)
        THEN [e |-> e1,
              await |-> [kind |-> "sell", source |-> order.level, target |-> paired,
                         quantity |-> adjust_and_validate_quantity(order.filled)]]
        ELSE [e |-> e1, await |-> NoTask]

\* _handle_sell_order_completion up to the awaited submission of the paired buy
handle_sell_order_completion(c, e, order) ==
    LET done == complete_order(e.levels, order.level, "SELL")
        paired == get_or_create_paired_buy_level(c, done, order.level)
        e1 == [e EXCEPT !.levels = done]
    IN  IF paired # None
           /\ ~buy_quantity_rejected(e.bal.balance, order.filled, PriceOf(c, paired))
        THEN [e |-> e1,
              await |-> [kind |-> "buy", source |-> order.level, target |-> paired,
                         quantity |-> adjust_and_validate_quantity(order.filled)]]
        ELSE [e |-> e1, await |-> NoTask]

\* variant: an order without a level is handled as an order of the lowest level
on_order_filled_level_assumed(c, e, order) ==
    LET grid_level == get_grid_level_for_order(e.orders, order.id)
        known == [order EXCEPT !.level = IF grid_level = None THEN 1 ELSE grid_level]
    IN  IF order.side = "BUY" THEN handle_buy_order_completion(c, e, known)
        ELSE handle_sell_order_completion(c, e, known)

\* _on_order_filled up to its first suspension: orders without a level are ignored
on_order_filled(c, e, order) ==
    LET grid_level == get_grid_level_for_order(e.orders, order.id)
        known == [order EXCEPT !.level = grid_level]
    IN  IF grid_level = None THEN [e |-> e, await |-> NoTask]
        ELSE IF order.side = "BUY" THEN handle_buy_order_completion(c, e, known)
        ELSE handle_sell_order_completion(c, e, known)

\* the rest of _on_order_filled once the submission it awaited has returned
on_order_filled_resume(c, e, t) ==
    IF t.kind = "sell" THEN place_sell_order_complete(c, e, t.source, t.target, t.quantity)
    ELSE IF t.kind = "buy" THEN place_buy_order_complete(c, e, t.source, t.target, t.quantity)
    ELSE e

\* variant: the balance tracker's update is not applied before the order manager runs
balance_handler_deferred(c, e, order) ==
    [e EXCEPT !.seen = Append(@, order.id)]

\* the balance tracker's ORDER_FILLED handler; e.seen records what it was given
balance_handler(c, e, order) ==
    [e EXCEPT !.bal = update_balance_on_order_completion(c, e.bal, order),
              !.seen = Append(@, order.id)]

\* EventBus.publish(ORDER_FILLED, order), awaited: the balance tracker subscribed
\* first, then the order manager, whose submission returns without suspending
publish_order_filled(c, e, order) ==
    LET e1 == balance_handler(c, Publish(e, "ORDER_FILLED", order.id), order)
        r == on_order_filled(c, e1, order)
    IN  on_order_filled_resume(c, r.e, r.await)

simulate_fill(c, e, id) ==
    LET closed == [e EXCEPT !.orders[id].filled = e.orders[id].amount,
                            !.orders[id].remaining = 0,
                            !.orders[id].status = "CLOSED"]
    IN  publish_order_filled(c, closed, closed.orders[id])

\* prices of the levels of a grid list that lie in [low, high]
crossed_levels(c, grids, high_price, low_price) ==
    {PriceOf(c, grids[i]) : i \in {j \in 1..Len(grids) :
        low_price <= PriceOf(c, grids[j]) /\ PriceOf(c, grids[j]) <= high_price}}

RECURSIVE fill_pending_orders(_, _, _, _, _)
fill_pending_orders(c, e, pending, high_price, low_price) ==
    IF pending = <<>> THEN e
    ELSE LET order == e.orders[Head(pending)]
             crossed_buy == crossed_levels(c, sorted_buy_grids(c), high_price, low_price)
             crossed_sell == crossed_levels(c, sorted_sell_grids(c), high_price, low_price)
             hit == \/ order.side = "BUY" /\ order.price \in crossed_buy
                    \/ order.side = "SELL" /\ order.price \in crossed_sell
             e1 == IF hit THEN simulate_fill(c, e, order.id) ELSE e
         IN  fill_pending_orders(c, e1, Tail(pending), high_price, low_price)

\* variant: the open orders are read again after the fills of the first pass
simulate_order_fills_reread(c, e, high_price, low_price) ==
    LET e1 == fill_pending_orders(c, e, get_open_orders(e.orders), high_price, low_price)
    IN  fill_pending_orders(c, e1, get_open_orders(e1.orders), high_price, low_price)

simulate_order_fills(c, e, high_price, low_price) ==
    fill_pending_orders(c, e, get_open_orders(e.orders), high_price, low_price)

\* variant: a buy level at the current price receives an order
buy_level_skipped_above_only(price, current_price) == price > current_price

\* initial buy orders skip the levels at or above the current price
buy_level_skipped(price, current_price) == price >= current_price

\* variant: a sell level at the current price receives an order
sell_level_skipped_below_only(price, current_price) == price < current_price

\* initial sell orders skip the levels at or below the current price
sell_level_skipped(price, current_price) == price <= current_price

\* one pass of the buy loop per level; failing holds the levels whose
\* submission raises OrderExecutionFailedError or returns no order
RECURSIVE submit_initial_buy_orders(_, _, _, _, _)
submit_initial_buy_orders(c, e, grids, current_price, failing) ==
    IF grids = <<>> THEN e
    ELSE LET l == Head(grids)
             price == PriceOf(c, l)
             quantity == get_order_size_for_grid_level(
                             c, get_total_balance_value(e.bal, current_price), current_price)
             order == NewOrder(Len(e.orders) + 1, "BUY", "LIMIT", quantity, price)
             placed == ~buy_level_skipped(price, current_price)
                       /\ can_place_order(e.levels, l, "BUY")
                       /\ ~buy_quantity_rejected(e.bal.balance, quantity, price)
                       /\ l \notin failing
                       /\ ~reserve_buy_raises(e.bal, quantity * price)
             e1 == IF placed
                   THEN [e EXCEPT !.bal = reserve_funds_for_buy(e.bal, quantity * price),
                                  !.levels = mark_order_pending(e.levels, l, "BUY"),
                                  !.orders = add_order(e.orders, order, l)]
                   ELSE e
         IN  submit_initial_buy_orders(c, e1, Tail(grids), current_price, failing)

\* the buy loop when every submission succeeds
initialize_buy_orders(c, e, grids, current_price) ==
    submit_initial_buy_orders(c, e, grids, current_price, {})

RECURSIVE submit_initial_sell_orders(_, _, _, _, _)
submit_initial_sell_orders(c, e, grids, current_price, failing) ==
    IF grids = <<>> THEN e
    ELSE LET l == Head(grids)
             price == PriceOf(c, l)
             quantity == get_order_size_for_grid_level(
                             c, get_total_balance_value(e.bal, current_price), current_price)
             order == NewOrder(Len(e.orders) + 1, "SELL", "LIMIT", quantity, price)
             placed == ~sell_level_skipped(price, current_price)
                       /\ can_place_order(e.levels, l, "SELL")
                       /\ ~sell_quantity_rejected(e.bal.crypto_balance, quantity)
                       /\ l \notin failing
                       /\ ~reserve_sell_raises(e.bal, quantity)
             e1 == IF placed
                   THEN [e EXCEPT !.bal = reserve_funds_for_sell(e.bal, quantity),
                                  !.levels = mark_order_pending(e.levels, l, "SELL"),
                                  !.orders = add_order(e.orders, order, l)]
                   ELSE e
         IN  submit_initial_sell_orders(c, e1, Tail(grids), current_price, failing)

\* the sell loop when every submission succeeds
initialize_sell_orders(c, e, grids, current_price) ==
    submit_initial_sell_orders(c, e, grids, current_price, {})

initialize_grid_orders(c, e, current_price) ==
    initialize_sell_orders(c,
        initialize_buy_orders(c, e, sorted_buy_grids(c), current_price),
        sorted_sell_grids(c), current_price)

\* variant: a live purchase is credited directly and through an event as well
perform_initial_purchase_twice(c, e, current_price) ==
    LET initial_quantity == get_initial_order_quantity(
                                e.bal.balance, e.bal.crypto_balance, current_price)
        id == Len(e.orders) + 1
        buy_order == NewOrder(id, "BUY", "MARKET", initial_quantity, current_price)
        added == [e EXCEPT !.orders = add_order(e.orders, buy_order, None)]
        filled == simulate_fill(c, added, id)
    IN  IF initial_quantity <= 0 THEN e
        ELSE IF c.trading_mode = "BACKTEST" THEN filled
        ELSE [filled EXCEPT !.bal = update_after_initial_purchase(c, filled.bal, buy_order),
                            !.seen = Append(@, id)]

perform_initial_purchase(c, e, current_price) ==
    LET initial_quantity == get_initial_order_quantity(
                                e.bal.balance, e.bal.crypto_balance, current_price)
        id == Len(e.orders) + 1
        buy_order == NewOrder(id, "BUY", "MARKET", initial_quantity, current_price)
        added == [e EXCEPT !.orders = add_order(e.orders, buy_order, None)]
    IN  IF initial_quantity <= 0 THEN e
        ELSE IF c.trading_mode = "BACKTEST" THEN simulate_fill(c, added, id)
        ELSE [added EXCEPT !.bal = update_after_initial_purchase(c, added.bal, buy_order),
                           !.seen = Append(@, id)]

\* market sell of the whole base balance; the order is added as a non-grid order
execute_take_profit_or_stop_loss_order(c, e, current_price) ==
    LET order == NewOrder(Len(e.orders) + 1, "SELL", "MARKET",
                          e.bal.crypto_balance, current_price)
    IN  [e EXCEPT !.orders = add_order(e.orders, order, None)]

-----------------------------------------------------------------------------
(* GridTradingStrategy *)

\* variant: only an upward crossing arms
trigger_crossed_upward_only(last_price, trigger_price, current_price) ==
    last_price <= trigger_price /\ trigger_price <= current_price

\* the trigger test of _initialize_grid_orders_once
trigger_crossed(last_price, trigger_price, current_price) ==
    \/ last_price <= trigger_price /\ trigger_price <= current_price
    \/ last_price = trigger_price

\* returns the engine and the new value of grid_orders_initialized
initialize_grid_orders_once(c, e, current_price, grid_orders_initialized, last_price) ==
    IF grid_orders_initialized THEN [e |-> e, initialized |-> TRUE]
    ELSE IF last_price = None THEN [e |-> e, initialized |-> FALSE]
    ELSE IF trigger_crossed(last_price, get_trigger_price(c), current_price)
    THEN [e |-> [initialize_grid_orders(c,
                     perform_initial_purchase(c, e, current_price), current_price)
                 EXCEPT !.arms = @ + 1],
          initialized |-> TRUE]
    ELSE [e |-> e, initialized |-> FALSE]

handle_take_profit(c, current_price) ==
    c.tp_enabled /\ current_price >= c.tp_threshold

handle_stop_loss(c, current_price) ==
    c.sl_enabled /\ current_price <= c.sl_threshold

\* _evaluate_tp_or_sl: no check without base balance; take profit before stop loss
evaluate_tp_or_sl(c, e, current_price) ==
    IF e.bal.crypto_balance = 0 THEN [e |-> e, triggered |-> FALSE]
    ELSE IF handle_take_profit(c, current_price) \/ handle_stop_loss(c, current_price)
    THEN [e |-> execute_take_profit_or_stop_loss_order(c, e, current_price),
          triggered |-> TRUE]
    ELSE [e |-> e, triggered |-> FALSE]

\* publishes STOP_BOT when a take profit or stop loss was executed
handle_take_profit_stop_loss(c, e, current_price) ==
    LET r == evaluate_tp_or_sl(c, e, current_price)
    IN  IF r.triggered THEN [e |-> Publish(r.e, "STOP_BOT", None), triggered |-> TRUE]
        ELSE r

-----------------------------------------------------------------------------
(* State, initial state and the packing of the engine value *)

Engine ==
    [levels |-> grid_levels, orders |-> order_book, bal |-> bal, bus |-> bus,
     seen |-> hist.seen, arms |-> hist.arms]

\* the variables an engine value is written back to
Commit(e, op, price, high, low, pending) ==
    /\ grid_levels' = e.levels
    /\ order_book' = e.orders
    /\ bal' = e.bal
    /\ bus' = e.bus
    /\ hist' = [op |-> op, price |-> price, high |-> high, low |-> low,
                pending |-> pending, seen |-> e.seen, arms |-> e.arms,
                was_initialized |-> strat.grid_orders_initialized,
                was_last_price |-> strat.last_price,
                was_running |-> strat.running,
                dups |-> IF op = "redeliver" THEN hist.dups + 1 ELSE hist.dups,
                calls |-> hist.calls, stops |-> hist.stops, health |-> hist.health,
                remote |-> hist.remote]

\* a ladder 2..5 with central price 3.5 and quote balance 120
SmallConfigs ==
    [trading_mode : {"BACKTEST", "LIVE"},
     bottom : {2}, top : {5}, num_grids : {4}, trigger : {3},
     initial_balance : {120}, fee_pct : {0, 50},
     tp_enabled : BOOLEAN, tp_threshold : {5},
     sl_enabled : {FALSE}, sl_threshold : {0}]

\* the prices a bar or a tick can show
Prices(c) == (c.bottom)..(c.top)

\* no execute_market_order call was made
NoCall ==
    [phase |-> "none", quantity |-> 0, attempt |-> 0, cancels |-> 0,
     requests |-> <<>>, outcomes |-> <<>>, filled_total |-> 0,
     order |-> [status |-> "none", filled |-> 0]]

\* no PerpetualGridManager was constructed
NotBuilt ==
    [built |-> FALSE, error |-> "none", price_grids |-> <<>>, central_price |-> 0,
     sorted_buy_grids |-> <<>>, sorted_sell_grids |-> <<>>, grid_levels |-> <<>>]

\* no health status was asked for yet
NoHealth == [strategy |-> FALSE, exchange_status |-> "", overall |-> FALSE]

InitWith(configs) ==
    /\ cfg \in configs
    /\ grid_levels = initialize_grids_and_levels(cfg)
    /\ order_book = <<>>
    /\ bal = [balance |-> 0, crypto_balance |-> 0, total_fees |-> 0,
              reserved_fiat |-> 0, reserved_crypto |-> 0]
    /\ bus = <<>>
    /\ perp = NotBuilt
    /\ mkt = NoCall
    /\ strat = [running |-> TRUE, session |-> "idle", grid_orders_initialized |-> FALSE,
                last_price |-> None, steps |-> 0, closes |-> 0]
    /\ bot = [is_running |-> FALSE, tracking |-> FALSE, restarts |-> 0]
    /\ exch = {}
    /\ tracker = [pending |-> {}, polls |-> 0]
    /\ tasks = [queue |-> <<>>, awaiting |-> {}, cancelled |-> <<>>]
    /\ hist = [op |-> "init", price |-> None, high |-> None, low |-> None,
               pending |-> <<>>, seen |-> <<>>, arms |-> 0,
               was_initialized |-> FALSE, was_last_price |-> None, was_running |-> TRUE,
               dups |-> 0, calls |-> 0, stops |-> 0, health |-> NoHealth,
               remote |-> "none"]

Init == InitWith(SmallConfigs)

-----------------------------------------------------------------------------
(* GridTradingBot *)

\* variant: is_running is left set
stop_bot_keeps_running(b) == [b EXCEPT !.tracking = FALSE]

\* _stop: nothing when not running; else stop the tracker, then the strategy
stop_bot(b) == IF ~b.is_running THEN b ELSE [b EXCEPT !.is_running = FALSE, !.tracking = FALSE]

\* variant: the strategy's stop flag is never set
stop_strategy_skipped(b, st) == st

\* strategy.stop() as _stop calls it: the flag is cleared and the exchange
\* connection closed (st.closes counts the close_connection calls)
stop_strategy(b, st) ==
    IF ~b.is_running THEN st ELSE [st EXCEPT !.running = FALSE, !.closes = @ + 1]

\* variant: only the monitoring task is cancelled, the query tasks go on
stop_tracking_monitor_only(b, tr) == tr

\* stop_tracking as _stop calls it: cancelling the monitoring task cancels the
\* gather of the running poll and with it every query task; what is left in
\* the active set is cancelled and awaited, then the set is cleared
stop_tracking(b, tr) == IF ~b.is_running THEN tr ELSE [tr EXCEPT !.pending = {}]

\* run(): balances are set up, the tracker and the strategy loop are started
Run ==
    /\ strat.session = "idle"
    /\ bot' = [bot EXCEPT !.is_running = TRUE, !.tracking = TRUE]
    /\ bal' = setup_balances(cfg)
    /\ grid_levels' = initialize_grids_and_levels(cfg)
    /\ strat' = [strat EXCEPT !.running = TRUE, !.session = "loop",
                              !.grid_orders_initialized = FALSE, !.last_price = None]
    /\ hist' = [hist EXCEPT !.op = "run"]
    /\ UNCHANGED <<cfg, perp, mkt, order_book, bus, exch, tracker, tasks>>

-----------------------------------------------------------------------------
(* Backtest loop: one iteration per OHLCV bar *)

BacktestBar(close, high, low) ==
    /\ cfg.trading_mode = "BACKTEST"
    /\ strat.session = "loop"
    /\ strat.steps < MaxSteps
    /\ LET a == initialize_grid_orders_once(cfg, Engine, close,
                    strat.grid_orders_initialized, strat.last_price)
           pending == IF a.initialized THEN get_open_orders(a.e.orders) ELSE <<>>
           f == IF a.initialized THEN simulate_order_fills(cfg, a.e, high, low) ELSE a.e
           t == IF a.initialized THEN handle_take_profit_stop_loss(cfg, f, close)
                ELSE [e |-> f, triggered |-> FALSE]
       IN  /\ Commit(t.e, "bar", close, high, low, pending)
           /\ IF t.triggered
              THEN /\ strat' = [stop_strategy(bot, strat) EXCEPT
                                             !.running = FALSE, !.session = "done",
                                             !.grid_orders_initialized = TRUE,
                                             !.steps = @ + 1]
                   /\ bot' = stop_bot(bot)
                   /\ tracker' = stop_tracking(bot, tracker)
              ELSE /\ strat' = [strat EXCEPT !.grid_orders_initialized = a.initialized,
                                             !.last_price = close, !.steps = @ + 1]
                   /\ UNCHANGED <<bot, tracker>>
    /\ UNCHANGED <<cfg, perp, mkt, exch, tasks>>

\* the data is exhausted: run() clears _running and the bot's run() returns
BacktestEnd ==
    /\ cfg.trading_mode = "BACKTEST"
    /\ strat.session = "loop"
    /\ strat' = [strat EXCEPT !.running = FALSE, !.session = "done"]
    /\ bot' = [bot EXCEPT !.is_running = FALSE]
    /\ hist' = [hist EXCEPT !.op = "end"]
    /\ UNCHANGED <<cfg, perp, mkt, grid_levels, order_book, bal, bus, exch, tracker, tasks>>

-----------------------------------------------------------------------------
(* Live / paper loop: on_ticker_update *)

LiveTick(current_price) ==
    /\ cfg.trading_mode = "LIVE"
    /\ strat.session = "loop"
    /\ strat.steps < MaxSteps
    /\ IF ~strat.running
       THEN /\ Commit(Engine, "tick", current_price, None, None, <<>>)
            /\ strat' = [strat EXCEPT !.steps = @ + 1]
            /\ UNCHANGED <<bot, tracker>>
       ELSE LET a == initialize_grid_orders_once(cfg, Engine, current_price,
                         strat.grid_orders_initialized, strat.last_price)
                t == IF a.initialized
                     THEN handle_take_profit_stop_loss(cfg, a.e, current_price)
                     ELSE [e |-> a.e, triggered |-> FALSE]
            IN  /\ Commit(t.e, "tick", current_price, None, None, <<>>)
                /\ IF t.triggered
                   THEN /\ strat' = [stop_strategy(bot, strat) EXCEPT
                                         !.grid_orders_initialized = TRUE, !.steps = @ + 1]
                        /\ bot' = stop_bot(bot)
                        /\ tracker' = stop_tracking(bot, tracker)
                   ELSE /\ strat' = [strat EXCEPT
                                         !.grid_orders_initialized = a.initialized,
                                         !.last_price = current_price, !.steps = @ + 1]
                        /\ UNCHANGED <<bot, tracker>>
    /\ UNCHANGED <<cfg, perp, mkt, exch, tasks>>

\* the exchange fills a resting limit order
ExchangeFill(id) ==
    /\ cfg.trading_mode = "LIVE"
    /\ id \in DOMAIN order_book
    /\ order_book[id].type = "LIMIT"
    /\ is_open(order_book[id])
    /\ id \notin exch
    /\ Cardinality(exch) < MaxFills
    /\ exch' = exch \cup {id}
    /\ UNCHANGED <<cfg, perp, mkt, grid_levels, order_book, bal, bus, strat, bot, tracker, tasks, hist>>

-----------------------------------------------------------------------------
(* OrderStatusTracker *)

\* the order as the exchange reports it
RemoteOrder(order, closed) ==
    IF order.id \in closed
    THEN [order EXCEPT !.status = "CLOSED", !.filled = order.amount, !.remaining = 0]
    ELSE order

\* _process_open_orders: one query task per locally open order
PollStart ==
    /\ cfg.trading_mode = "LIVE"
    /\ bot.tracking
    /\ tracker.pending = {}
    /\ tracker.polls < MaxPolls
    /\ get_open_orders(order_book) # <<>>
    /\ tracker' = [pending |-> {get_open_orders(order_book)[i] :
                                    i \in 1..Len(get_open_orders(order_book))},
                   polls |-> tracker.polls + 1]
    /\ UNCHANGED <<cfg, perp, mkt, grid_levels, order_book, bal, bus, strat, bot, exch, tasks, hist>>

\* _handle_order_status_change: CLOSED updates the book and publishes ORDER_FILLED
\* with publish_sync, which schedules the subscribers; OPEN changes nothing
handle_order_status_change(orders, remote_order) ==
    IF remote_order.status = "CLOSED"
    THEN [orders |-> update_order_status(orders, remote_order.id, "CLOSED"),
          published |-> TRUE]
    ELSE [orders |-> orders, published |-> FALSE]

\* _query_and_handle_order for one order of the running poll
PollQuery(id) ==
    /\ id \in tracker.pending
    /\ LET r == handle_order_status_change(order_book, RemoteOrder(order_book[id], exch))
       IN  /\ order_book' = r.orders
           /\ bus' = IF r.published
                     THEN Append(bus, [topic |-> "ORDER_FILLED", order |-> id]) ELSE bus
           /\ tasks' = IF r.published
                       THEN [tasks EXCEPT !.queue = Append(@, id)] ELSE tasks
    /\ tracker' = [tracker EXCEPT !.pending = @ \ {id}]
    /\ UNCHANGED <<cfg, perp, mkt, grid_levels, bal, strat, bot, exch, hist>>

\* the scheduled subscribers of the oldest published fill run: the balance tracker,
\* then the order manager until it awaits the submission of the paired order
TaskStart ==
    /\ tasks.queue # <<>>
    /\ LET id == Head(tasks.queue)
           order == RemoteOrder(order_book[id], {id})
           r == on_order_filled(cfg, balance_handler(cfg, Engine, order), order)
       IN  /\ Commit(r.e, "handle", None, None, None, <<>>)
           /\ tasks' = [queue |-> Tail(tasks.queue),
                        awaiting |-> IF r.await.kind = "none" THEN tasks.awaiting
                                     ELSE tasks.awaiting \cup {r.await},
                        cancelled |-> tasks.cancelled]
    /\ UNCHANGED <<cfg, perp, mkt, strat, bot, exch, tracker>>

\* a submission returns and the order manager's handler runs to its end
TaskResume(t) ==
    /\ t \in tasks.awaiting
    /\ Commit(on_order_filled_resume(cfg, Engine, t), "resume", None, None, None, <<>>)
    /\ tasks' = [tasks EXCEPT !.awaiting = @ \ {t}]
    /\ UNCHANGED <<cfg, perp, mkt, strat, bot, exch, tracker>>

-----------------------------------------------------------------------------
(* Specification of one session *)

Bars(c) ==
    {b \in [close : Prices(c), high : Prices(c), low : Prices(c)] :
        b.low <= b.high /\ b.close \in {b.low, b.high}}

Next ==
    \/ Run
    \/ \E b \in Bars(cfg) : BacktestBar(b.close, b.high, b.low)
    \/ BacktestEnd
    \/ \E p \in Prices(cfg) : LiveTick(p)
    \/ \E id \in DOMAIN order_book : ExchangeFill(id)
    \/ PollStart
    \/ \E id \in tracker.pending : PollQuery(id)
    \/ TaskStart
    \/ \E t \in tasks.awaiting : TaskResume(t)

Spec == Init /\ [][Next]_vars

-----------------------------------------------------------------------------
(* A backtest session in which the event bus may deliver a published          *)
(* ORDER_FILLED event to its subscribers once more                            *)

\* EventBus.publish(ORDER_FILLED, order) for an order whose fill was already
\* handled: the balance tracker's handler, then the order manager's
RedeliverFill(id) ==
    /\ cfg.trading_mode = "BACKTEST"
    /\ strat.session = "loop"
    /\ hist.dups < MaxDup
    /\ order_book[id].type = "LIMIT"
    /\ order_book[id].status = "CLOSED"
    /\ LET e == publish_order_filled(cfg, Engine, order_book[id])
       IN  /\ Commit(e, "redeliver", None, None, None, <<id>>)
    /\ UNCHANGED <<cfg, perp, mkt, strat, bot, exch, tracker, tasks>>

BacktestConfigs == {c \in SmallConfigs : c.trading_mode = "BACKTEST"}

InitDup == InitWith(BacktestConfigs)

NextDup ==
    \/ Run
    \/ \E b \in Bars(cfg) : BacktestBar(b.close, b.high, b.low)
    \/ BacktestEnd
    \/ \E id \in DOMAIN order_book : RedeliverFill(id)

SpecDup == InitDup /\ [][NextDup]_vars

-----------------------------------------------------------------------------
(* Sessions in which START_BOT events are handled                             *)

\* GridTradingStrategy.restart: run() again unless the strategy is running;
\* run() sets _running and enters a loop whose locals start afresh
restart_strategy(st) ==
    IF ~st.running
    THEN [st EXCEPT !.running = TRUE, !.session = "loop",
                    !.grid_orders_initialized = FALSE, !.last_price = None,
                    !.steps = 0]
    ELSE st

\* _handle_start_bot_event -> restart(): _stop() if running, then is_running is
\* set, the tracker is started and the strategy restarted.  A backtest replays
\* its bars without waiting for events, so START_BOT is not handled during it.
HandleStartBot ==
    /\ cfg.trading_mode = "BACKTEST" => strat.session # "loop"
    /\ bot.restarts < MaxRestarts
    /\ bot' = [is_running |-> TRUE, tracking |-> TRUE, restarts |-> bot.restarts + 1]
    /\ tracker' = stop_tracking(bot, tracker)
    /\ strat' = restart_strategy(stop_strategy(bot, strat))
    /\ hist' = [hist EXCEPT !.op = "restart"]
    /\ UNCHANGED <<cfg, perp, mkt, grid_levels, order_book, bal, bus, exch, tasks>>

RestartConfigs == {c \in SmallConfigs : c.fee_pct = 0 /\ c.tp_enabled}

InitRestart == InitWith(RestartConfigs)

\* the exchange fills no resting order in these sessions
NextRestart ==
    \/ Run
    \/ \E b \in Bars(cfg) : BacktestBar(b.close, b.high, b.low)
    \/ BacktestEnd
    \/ \E p \in Prices(cfg) : LiveTick(p)
    \/ HandleStartBot

SpecRestart == InitRestart /\ [][NextRestart]_vars

-----------------------------------------------------------------------------
(* Sessions of the bot controller: STOP_BOT and START_BOT events are handled  *)
(* and the health status is asked for at any time                             *)

\* _handle_stop_bot_event -> _stop()
HandleStopBot ==
    /\ cfg.trading_mode = "BACKTEST" => strat.session # "loop"
    /\ hist.stops < MaxStops
    /\ bot' = stop_bot(bot)
    /\ tracker' = stop_tracking(bot, tracker)
    /\ strat' = stop_strategy(bot, strat)
    /\ hist' = [hist EXCEPT !.op = "stop", !.stops = @ + 1]
    /\ UNCHANGED <<cfg, perp, mkt, grid_levels, order_book, bal, bus, exch, tasks>>

\* what exchange_service.get_exchange_status() may answer
ExchangeResponses ==
    {[status |-> "ok"], [status |-> "maintenance"], [info |-> "none"]}

\* _get_exchange_status: the status field, "unknown" when it is missing
get_exchange_status(response) ==
    IF "status" \in DOMAIN response THEN response.status ELSE "unknown"

check_strategy_health(b) == b.is_running

\* bool() of a Python str: every non-empty string counts as true
truthy(str) == str # ""

\* get_bot_health_status: overall = all(health_status.values())
get_bot_health_status(b, response) ==
    LET strategy == check_strategy_health(b)
        exchange_status == get_exchange_status(response)
    IN  [strategy |-> strategy, exchange_status |-> exchange_status,
         overall |-> strategy /\ truthy(exchange_status)]

GetBotHealthStatus(response) ==
    /\ hist' = [hist EXCEPT !.op = "health",
                            !.health = get_bot_health_status(bot, response)]
    /\ UNCHANGED <<cfg, perp, mkt, grid_levels, order_book, bal, bus, strat, bot, exch,
                   tracker, tasks>>

\* live sessions, in which the events arrive while the ticker is listened to
LifecycleConfigs == {c \in RestartConfigs : c.trading_mode = "LIVE"}

InitLifecycle == InitWith(LifecycleConfigs)

NextLifecycle ==
    \/ Run
    \/ \E p \in Prices(cfg) : LiveTick(p)
    \/ HandleStopBot
    \/ HandleStartBot

SpecLifecycle == InitLifecycle /\ [][NextLifecycle]_vars

\* live sessions in which the health status is asked for at any time
NextHealth ==
    \/ Run
    \/ \E p \in Prices(cfg) : LiveTick(p)
    \/ HandleStopBot
    \/ \E r \in ExchangeResponses : GetBotHealthStatus(r)

SpecHealth == InitLifecycle /\ [][NextHealth]_vars

-----------------------------------------------------------------------------
(* The backtest of the "simple arm and pair" scenario: ladder 100..110,       *)
(* quote 1000 (in units of 0.001 quote, the value of one quantity step at     *)
(* price 1), no fee, trigger 105                                              *)

ScenarioConfigs ==
    {[trading_mode |-> "BACKTEST", bottom |-> 100, top |-> 110, num_grids |-> 11,
      trigger |-> 105, initial_balance |-> 1000000, fee_pct |-> 0,
      tp_enabled |-> FALSE, tp_threshold |-> 0,
      sl_enabled |-> FALSE, sl_threshold |-> 0]}

ScenarioPrices == {104, 105, 106, 107}

ScenarioBars ==
    {b \in [close : ScenarioPrices, high : ScenarioPrices, low : ScenarioPrices] :
        b.low <= b.high /\ b.close \in {b.low, b.high}}

InitScenario == InitWith(ScenarioConfigs)

NextScenario ==
    \/ Run
    \/ \E b \in ScenarioBars : BacktestBar(b.close, b.high, b.low)
    \/ BacktestEnd

SpecScenario == InitScenario /\ [][NextScenario]_vars

-----------------------------------------------------------------------------
(* The balance tracker on its own: after setup_balances its reservation and   *)
(* fill methods are called in any order with small arguments; hist.op names   *)
(* the last call and tells whether it raised                                  *)

\* a quote balance of 12, which a few reservations use up
TrackerConfigs ==
    {[c EXCEPT !.initial_balance = 12] :
        c \in {d \in SmallConfigs : d.trading_mode = "BACKTEST" /\ ~d.tp_enabled}}

TrackerQuantities == 1..2

\* a CLOSED limit order filled in full
FilledOrder(side, quantity, price) ==
    [NewOrder(1, side, "LIMIT", quantity, price) EXCEPT
        !.filled = quantity, !.remaining = 0, !.status = "CLOSED"]

TrackerCall(b, op) ==
    /\ hist.calls < MaxCalls
    /\ bal' = b
    /\ hist' = [hist EXCEPT !.op = op, !.calls = @ + 1]
    /\ UNCHANGED <<cfg, perp, mkt, grid_levels, order_book, bus, strat, bot, exch, tracker, tasks>>

TrackerSetup ==
    /\ hist.op = "init"
    /\ TrackerCall(setup_balances(cfg), "setup")

TrackerReserveBuy(amount) ==
    /\ hist.op # "init"
    /\ TrackerCall(reserve_funds_for_buy(bal, amount),
                   IF reserve_buy_raises(bal, amount)
                   THEN "InsufficientBalanceError" ELSE "reserve_buy")

TrackerReserveSell(quantity) ==
    /\ hist.op # "init"
    /\ TrackerCall(reserve_funds_for_sell(bal, quantity),
                   IF reserve_sell_raises(bal, quantity)
                   THEN "InsufficientCryptoBalanceError" ELSE "reserve_sell")

TrackerFill(side, quantity, price) ==
    /\ hist.op # "init"
    /\ TrackerCall(update_balance_on_order_completion(cfg, bal,
                       FilledOrder(side, quantity, price)),
                   IF side = "BUY" THEN "buy_fill" ELSE "sell_fill")

InitTracker == InitWith(TrackerConfigs)

NextTracker ==
    \/ TrackerSetup
    \/ \E q \in TrackerQuantities, p \in Prices(cfg) : TrackerReserveBuy(q * p)
    \/ \E q \in TrackerQuantities : TrackerReserveSell(q)
    \/ \E side \in {"BUY", "SELL"}, q \in TrackerQuantities, p \in Prices(cfg) :
           TrackerFill(side, q, p)

SpecTracker == InitTracker /\ [][NextTracker]_vars

-----------------------------------------------------------------------------
(* PerpetualGridManager: construction of the ladder from a configuration      *)
(* g = [bottom_range, top_range, num_grids, spacing_type, strategy_type,      *)
(* leverage].  The code computes in floating point; here a price is held      *)
(* exactly, as the integer price * PriceScale(num_grids), which makes the     *)
(* base spacing and the leverage factor whole numbers.                        *)

PriceScale(num_grids) == 20 * (num_grids - 1)

\* variant: the factor 1 + (leverage - 1) * 0.05
adjust_grid_spacing_half(leverage, base_spacing) ==
    (base_spacing * (20 + (leverage - 1))) \div 20

\* base_spacing * (1 + (leverage - 1) * 0.1)
adjust_grid_spacing(leverage, base_spacing) ==
    (base_spacing * (10 + (leverage - 1))) \div 10

\* _calculate_price_grids_and_central_price; GEOMETRIC is computed for two
\* grids, where ratio = top / bottom needs no root
calculate_price_grids_and_central_price(g) ==
    LET scale == PriceScale(g.num_grids)
    IN  IF g.spacing_type = "ARITHMETIC"
        THEN LET grid_spacing == ((g.top_range - g.bottom_range) * scale)
                                     \div (g.num_grids - 1)
                 adjusted_spacing == adjust_grid_spacing(g.leverage, grid_spacing)
             IN  [error |-> "none",
                  grids |-> [i \in 1..g.num_grids |->
                                g.bottom_range * scale + (i - 1) * adjusted_spacing],
                  central_price |-> ((g.top_range + g.bottom_range) * scale) \div 2]
        ELSE IF g.spacing_type = "GEOMETRIC"
        THEN IF g.bottom_range = 0
             THEN [error |-> "ZeroDivisionError", grids |-> <<>>, central_price |-> 0]
             ELSE [error |-> "none",
                   grids |-> <<g.bottom_range * scale, g.top_range * scale>>,
                   central_price |-> ((g.bottom_range + g.top_range) * scale) \div 2]
        ELSE [error |-> "ValueError", grids |-> <<>>, central_price |-> 0]

\* __init__ -> initialize_grids_and_levels: an exception leaves no manager
perpetual_initialize_grids_and_levels(g) ==
    LET r == calculate_price_grids_and_central_price(g)
        n == Len(r.grids)
        prices == {r.grids[i] : i \in 1..n}
    IN  IF r.error # "none"
        THEN [NotBuilt EXCEPT !.built = TRUE, !.error = r.error]
        ELSE IF g.strategy_type = "SIMPLE_GRID"
        THEN [built |-> TRUE, error |-> "none", price_grids |-> r.grids,
              central_price |-> r.central_price,
              sorted_buy_grids |-> SelectSeq(r.grids, LAMBDA x : x <= r.central_price),
              sorted_sell_grids |-> SelectSeq(r.grids, LAMBDA x : x > r.central_price),
              grid_levels |-> [x \in prices |->
                                 IF x <= r.central_price THEN "READY_TO_BUY"
                                 ELSE "READY_TO_SELL"]]
        ELSE [built |-> TRUE, error |-> "none", price_grids |-> r.grids,
              central_price |-> r.central_price,
              sorted_buy_grids |-> SubSeq(r.grids, 1, n - 1),
              sorted_sell_grids |-> SubSeq(r.grids, 2, n),
              grid_levels |-> [x \in prices |->
                                 IF x # r.grids[n] THEN "READY_TO_BUY_OR_SELL"
                                 ELSE "READY_TO_SELL"]]

\* PerpetualGridManager(config_manager, strategy_type, leverage)
ConstructGrid ==
    /\ ~perp.built
    /\ perp' = perpetual_initialize_grids_and_levels(cfg)
    /\ UNCHANGED <<cfg, grid_levels, order_book, bal, bus, strat, bot, exch,
                   tracker, tasks, hist, mkt>>

\* ARITHMETIC and unrecognized spacing with 2 to 4 grids, GEOMETRIC with 2,
\* and the ladder 100..110 with 11 grids
GeometryConfigs ==
    [bottom_range : -1..3, top_range : 1..4, num_grids : 2..4,
     spacing_type : {"ARITHMETIC", "LOGARITHMIC"},
     strategy_type : {"SIMPLE_GRID", "HEDGED_GRID"}, leverage : 1..3]
    \cup [bottom_range : -1..3, top_range : 1..4, num_grids : {2},
          spacing_type : {"GEOMETRIC"},
          strategy_type : {"SIMPLE_GRID", "HEDGED_GRID"}, leverage : 1..3]
    \cup [bottom_range : {100}, top_range : {110}, num_grids : {11},
          spacing_type : {"ARITHMETIC"},
          strategy_type : {"SIMPLE_GRID"}, leverage : {1, 11}]

InitGeometry ==
    /\ cfg \in GeometryConfigs
    /\ grid_levels = <<>>
    /\ order_book = <<>>
    /\ bal = [balance |-> 0, crypto_balance |-> 0, total_fees |-> 0,
              reserved_fiat |-> 0, reserved_crypto |-> 0]
    /\ bus = <<>>
    /\ perp = NotBuilt
    /\ mkt = NoCall
    /\ strat = [running |-> TRUE, session |-> "idle", grid_orders_initialized |-> FALSE,
                last_price |-> None, steps |-> 0, closes |-> 0]
    /\ bot = [is_running |-> FALSE, tracking |-> FALSE, restarts |-> 0]
    /\ exch = {}
    /\ tracker = [pending |-> {}, polls |-> 0]
    /\ tasks = [queue |-> <<>>, awaiting |-> {}, cancelled |-> <<>>]
    /\ hist = [op |-> "init"]

NextGeometry == ConstructGrid

SpecGeometry == InitGeometry /\ [][NextGeometry]_vars

-----------------------------------------------------------------------------
(* PerpetualLiveOrderExecutionStrategy.execute_market_order: one call, with   *)
(* the exchange answering each place_order and cancel_order as it likes.      *)
(* mkt.requests are the quantities submitted, mkt.outcomes what came back,    *)
(* mkt.filled_total what the exchange filled over all attempts.               *)

\* what place_order(quantity) may come to: an exception, or an order that is
\* CLOSED (filled in full), OPEN (filled in part or not at all) or CANCELED
PlaceResults(quantity) ==
    {[status |-> "error", filled |-> 0], [status |-> "CLOSED", filled |-> quantity],
     [status |-> "CANCELED", filled |-> 0]}
    \cup [status : {"OPEN"}, filled : 0..(quantity - 1)]

\* what cancel_order may come to
CancelResults == {"canceled", "open", "error"}

\* variant: an attempt that raised is not counted
after_place_error_uncounted(c, m, r) ==
    LET m1 == [m EXCEPT !.requests = Append(@, m.quantity),
                        !.outcomes = Append(@, r.status),
                        !.filled_total = @ + r.filled]
    IN  IF r.status = "CLOSED" THEN [m1 EXCEPT !.phase = "returned", !.order = r]
        ELSE IF r.status = "OPEN" THEN [m1 EXCEPT !.phase = "cancel", !.cancels = 0]
        ELSE IF r.status = "error" THEN m1
        ELSE [m1 EXCEPT !.attempt = @ + 1]

\* one pass of the retry loop up to its next exchange call: the quantity of
\* the call is submitted; CLOSED returns the order, OPEN goes on to cancel it,
\* any other status and any exception lead to the next attempt
after_place(c, m, r) ==
    LET m1 == [m EXCEPT !.requests = Append(@, m.quantity),
                        !.outcomes = Append(@, r.status),
                        !.filled_total = @ + r.filled]
    IN  IF r.status = "CLOSED" THEN [m1 EXCEPT !.phase = "returned", !.order = r]
        ELSE IF r.status = "OPEN" THEN [m1 EXCEPT !.phase = "cancel", !.cancels = 0]
        ELSE [m1 EXCEPT !.attempt = @ + 1]

\* _retry_cancel_order, one cancel attempt: success or the last failed attempt
\* ends _handle_partial_fill and the retry loop goes on
after_cancel(c, m, result) ==
    IF result = "canceled" \/ m.cancels + 1 >= c.max_retries
    THEN [m EXCEPT !.cancels = @ + 1, !.phase = "submit", !.attempt = @ + 1]
    ELSE [m EXCEPT !.cancels = @ + 1]

MarketStep(m) ==
    /\ mkt' = m
    /\ UNCHANGED <<cfg, grid_levels, order_book, bal, bus, strat, bot, exch,
                   tracker, tasks, hist, perp>>

\* execute_market_order(side, pair, quantity, price) is called
ExecuteMarketOrder(quantity) ==
    /\ mkt.phase = "none"
    /\ MarketStep([NoCall EXCEPT !.phase = "submit", !.quantity = quantity])

MarketSubmit(r) ==
    /\ mkt.phase = "submit"
    /\ mkt.attempt < cfg.max_retries
    /\ MarketStep(after_place(cfg, mkt, r))

MarketCancel(result) ==
    /\ mkt.phase = "cancel"
    /\ MarketStep(after_cancel(cfg, mkt, result))

\* the loop is exhausted: OrderExecutionFailedError
MarketFail ==
    /\ mkt.phase = "submit"
    /\ mkt.attempt >= cfg.max_retries
    /\ MarketStep([mkt EXCEPT !.phase = "raised"])

MarketConfigs == [max_retries : 0..MaxRetries]

InitMarket ==
    /\ cfg \in MarketConfigs
    /\ grid_levels = <<>>
    /\ order_book = <<>>
    /\ bal = [balance |-> 0, crypto_balance |-> 0, total_fees |-> 0,
              reserved_fiat |-> 0, reserved_crypto |-> 0]
    /\ bus = <<>>
    /\ perp = NotBuilt
    /\ mkt = NoCall
    /\ strat = [running |-> TRUE, session |-> "idle", grid_orders_initialized |-> FALSE,
                last_price |-> None, steps |-> 0, closes |-> 0]
    /\ bot = [is_running |-> FALSE, tracking |-> FALSE, restarts |-> 0]
    /\ exch = {}
    /\ tracker = [pending |-> {}, polls |-> 0]
    /\ tasks = [queue |-> <<>>, awaiting |-> {}, cancelled |-> <<>>]
    /\ hist = [op |-> "init"]

NextMarket ==
    \/ \E q \in 1..MaxQuantity : ExecuteMarketOrder(q)
    \/ \E r \in PlaceResults(mkt.quantity) : MarketSubmit(r)
    \/ \E result \in CancelResults : MarketCancel(result)
    \/ MarketFail

\* the call is a coroutine that goes on whenever an exchange call has answered
SpecMarket == InitMarket /\ [][NextMarket]_vars /\ WF_vars(NextMarket)

-----------------------------------------------------------------------------
(* Backtest sessions only *)

NextBacktest ==
    \/ Run
    \/ \E b \in Bars(cfg) : BacktestBar(b.close, b.high, b.low)
    \/ BacktestEnd

SpecBacktest == InitDup /\ [][NextBacktest]_vars

-----------------------------------------------------------------------------
(* A live session in which the exchange reports resting orders as CANCELED   *)

\* _handle_order_status_change for a remote order whose status is CANCELED:
\* the local status is updated and ORDER_CANCELLED is published with
\* publish_sync, which schedules the subscriber
handle_order_cancelled_status(orders, remote_order) ==
    update_order_status(orders, remote_order.id, "CANCELED")

\* _on_order_cancelled: a notification is sent, nothing else
on_order_cancelled(e, order) == e

\* _query_and_handle_order for an order the exchange reports as CANCELED
PollQueryCanceled(id) ==
    /\ id \in tracker.pending
    /\ id \notin exch
    /\ order_book' = handle_order_cancelled_status(
                         order_book, [order_book[id] EXCEPT !.status = "CANCELED"])
    /\ bus' = Append(bus, [topic |-> "ORDER_CANCELLED", order |-> id])
    /\ tasks' = [tasks EXCEPT !.cancelled = Append(@, id)]
    /\ tracker' = [tracker EXCEPT !.pending = @ \ {id}]
    /\ UNCHANGED <<cfg, perp, mkt, grid_levels, bal, strat, bot, exch, hist>>

\* the scheduled subscriber of the oldest published cancellation runs
TaskCancelled ==
    /\ tasks.cancelled # <<>>
    /\ LET order == order_book[Head(tasks.cancelled)]
       IN  Commit(on_order_cancelled(Engine, order), "cancelled", None, None, None, <<>>)
    /\ tasks' = [tasks EXCEPT !.cancelled = Tail(@)]
    /\ UNCHANGED <<cfg, perp, mkt, strat, bot, exch, tracker>>

NextCancel ==
    \/ Run
    \/ \E p \in Prices(cfg) : LiveTick(p)
    \/ PollStart
    \/ \E id \in tracker.pending : PollQuery(id)
    \/ \E id \in tracker.pending : PollQueryCanceled(id)
    \/ TaskCancelled

SpecCancel == InitLifecycle /\ [][NextCancel]_vars

-----------------------------------------------------------------------------
(* The arming of the grid, one order manager call per step, with exchange    *)
(* submissions that may fail                                                 *)

\* the levels of a grid list before its first level in failing
RECURSIVE until_failure(_, _)
until_failure(grids, failing) ==
    IF grids = <<>> \/ Head(grids) \in failing THEN <<>>
    ELSE <<Head(grids)>> \o until_failure(Tail(grids), failing)

\* variant: the first failing submission ends the initialization
initialize_grid_orders_aborting(c, e, current_price, failing) ==
    LET buys == until_failure(sorted_buy_grids(c), failing)
        sells == IF buys = sorted_buy_grids(c)
                 THEN until_failure(sorted_sell_grids(c), failing) ELSE <<>>
    IN  submit_initial_sell_orders(c,
            submit_initial_buy_orders(c, e, buys, current_price, failing),
            sells, current_price, failing)

\* initialize_grid_orders when the submissions for the levels in failing fail
initialize_grid_orders_failing(c, e, current_price, failing) ==
    submit_initial_sell_orders(c,
        submit_initial_buy_orders(c, e, sorted_buy_grids(c), current_price, failing),
        sorted_sell_grids(c), current_price, failing)

\* _initialize_grid_orders_once, first call: perform_initial_purchase
PerformInitialPurchase(last_price, current_price) ==
    /\ strat.session = "loop"
    /\ strat.last_price = None /\ ~strat.grid_orders_initialized
    /\ cfg.trading_mode = "LIVE" => strat.running
    /\ trigger_crossed(last_price, get_trigger_price(cfg), current_price)
    /\ Commit(perform_initial_purchase(cfg, Engine, current_price),
              "purchase", current_price, None, None, <<>>)
    /\ strat' = [strat EXCEPT !.last_price = last_price]
    /\ UNCHANGED <<cfg, perp, mkt, bot, exch, tracker, tasks>>

\* _initialize_grid_orders_once, second call: initialize_grid_orders
InitializeGridOrders(failing) ==
    /\ strat.last_price # None /\ ~strat.grid_orders_initialized
    /\ LET e == initialize_grid_orders_failing(cfg, Engine, hist.price, failing)
       IN  Commit([e EXCEPT !.arms = @ + 1], "initialize", hist.price, None, None,
                  SelectIdx([l \in Levels(cfg) |-> l], LAMBDA l : l \in failing, 1))
    /\ strat' = [strat EXCEPT !.grid_orders_initialized = TRUE]
    /\ UNCHANGED <<cfg, perp, mkt, bot, exch, tracker, tasks>>

NextArming ==
    \/ Run
    \/ \E last_price, current_price \in Prices(cfg) :
           PerformInitialPurchase(last_price, current_price)
    \/ \E failing \in SUBSET Levels(cfg) : InitializeGridOrders(failing)

\* the configurations of a session and, so that a validation fails at the
\* second buy level, the same with a fee of 90 percent
ArmingConfigs == SmallConfigs \cup {[c EXCEPT !.fee_pct = 90] : c \in SmallConfigs}

InitArming == InitWith(ArmingConfigs)

SpecArming == InitArming /\ [][NextArming]_vars

-----------------------------------------------------------------------------
(* The arming of a session that may start with too little quote balance for  *)
(* an initial purchase                                                       *)

PurchaseConfigs == SmallConfigs \cup {[c EXCEPT !.initial_balance = 3] : c \in SmallConfigs}

SpecPurchase == InitWith(PurchaseConfigs) /\ [][NextArming]_vars

-----------------------------------------------------------------------------
(* A live session in which the submission of a paired order may fail         *)

\* variant: the failed placement puts the filled level back to its WAITING state
submission_failed_rolls_back(c, e, t) ==
    [e EXCEPT !.levels[t.source].state =
        IF t.kind = "sell" THEN "WAITING_FOR_BUY_FILL" ELSE "WAITING_FOR_SELL_FILL"]

\* _place_buy_order / _place_sell_order when execute_limit_order raises (the
\* error is caught and notified by _on_order_filled) or returns no order (an
\* error is logged): nothing is paired, reserved, marked or booked
submission_failed(c, e, t) == e

\* a submission fails and the order manager's handler runs to its end
TaskResumeFailed(t) ==
    /\ t \in tasks.awaiting
    /\ Commit(submission_failed(cfg, Engine, t), "failed", None, None, None, <<>>)
    /\ tasks' = [tasks EXCEPT !.awaiting = @ \ {t}]
    /\ UNCHANGED <<cfg, perp, mkt, strat, bot, exch, tracker>>

NextPlacement ==
    \/ Run
    \/ \E p \in Prices(cfg) : LiveTick(p)
    \/ \E id \in DOMAIN order_book : ExchangeFill(id)
    \/ PollStart
    \/ \E id \in tracker.pending : PollQuery(id)
    \/ TaskStart
    \/ \E t \in tasks.awaiting : TaskResume(t)
    \/ \E t \in tasks.awaiting : TaskResumeFailed(t)

SpecPlacement == InitLifecycle /\ [][NextPlacement]_vars

-----------------------------------------------------------------------------
(* A live session in which the exchange may answer a status query with any   *)
(* status, or not at all                                                     *)

\* the statuses a fetched order can carry; EXPIRED stands for the statuses
\* the tracker has no branch for
RemoteStatuses == {"CLOSED", "CANCELED", "OPEN", "UNKNOWN", "EXPIRED"}

\* the answers to get_order: a remote order, or an exception ("error")
QueryOutcomes ==
    [status : RemoteStatuses \cup {"error"}, filled : {0}]
    \cup {[status |-> "OPEN", filled |-> 1]}

\* variant: a partly filled open order is reported as a fill
handle_remote_status_partial_as_fill(orders, remote_order) ==
    IF remote_order.status = "CLOSED"
       \/ (remote_order.status = "OPEN" /\ remote_order.filled > 0)
    THEN [orders |-> update_order_status(orders, remote_order.id, "CLOSED"),
          event |-> "ORDER_FILLED"]
    ELSE IF remote_order.status = "CANCELED"
    THEN [orders |-> update_order_status(orders, remote_order.id, "CANCELED"),
          event |-> "ORDER_CANCELLED"]
    ELSE [orders |-> orders, event |-> "none"]

\* _handle_order_status_change, every branch: UNKNOWN raises a ValueError that
\* the method itself catches; CLOSED and CANCELED update the local status and
\* then publish; OPEN and any other status only log
handle_remote_status(orders, remote_order) ==
    IF remote_order.status = "UNKNOWN" THEN [orders |-> orders, event |-> "none"]
    ELSE IF remote_order.status = "CLOSED"
    THEN [orders |-> update_order_status(orders, remote_order.id, "CLOSED"),
          event |-> "ORDER_FILLED"]
    ELSE IF remote_order.status = "CANCELED"
    THEN [orders |-> update_order_status(orders, remote_order.id, "CANCELED"),
          event |-> "ORDER_CANCELLED"]
    ELSE [orders |-> orders, event |-> "none"]

\* variant: a failed query ends the poll
after_query_error_poll_ended(tr, id) == [tr EXCEPT !.pending = {}]

\* the poll after the query task of one order has ended: the other tasks of
\* the gather go on
after_query(tr, id) == [tr EXCEPT !.pending = @ \ {id}]

\* _query_and_handle_order for one order of the running poll, with the answer
\* of the exchange
PollQueryAny(id, outcome) ==
    /\ id \in tracker.pending
    /\ LET remote_order == [order_book[id] EXCEPT !.status = outcome.status,
                                                  !.filled = outcome.filled]
           r == IF outcome.status = "error"
                THEN [orders |-> order_book, event |-> "none"]
                ELSE handle_remote_status(order_book, remote_order)
       IN  /\ order_book' = r.orders
           /\ bus' = IF r.event = "none" THEN bus
                     ELSE Append(bus, [topic |-> r.event, order |-> id])
           /\ tasks' = IF r.event = "ORDER_FILLED"
                       THEN [tasks EXCEPT !.queue = Append(@, id)]
                       ELSE IF r.event = "ORDER_CANCELLED"
                       THEN [tasks EXCEPT !.cancelled = Append(@, id)]
                       ELSE tasks
    /\ tracker' = after_query(tracker, id)
    /\ hist' = [hist EXCEPT !.op = "query", !.pending = <<id>>,
                            !.remote = outcome.status]
    /\ UNCHANGED <<cfg, perp, mkt, grid_levels, bal, strat, bot, exch>>

NextStatus ==
    \/ Run
    \/ \E p \in Prices(cfg) : LiveTick(p)
    \/ PollStart
    \/ \E id \in tracker.pending : \E outcome \in QueryOutcomes : PollQueryAny(id, outcome)

SpecStatus == InitLifecycle /\ [][NextStatus]_vars

-----------------------------------------------------------------------------
(* A live session that is stopped while the tracker polls                    *)

NextStop ==
    \/ Run
    \/ \E p \in Prices(cfg) : LiveTick(p)
    \/ PollStart
    \/ \E id \in tracker.pending : \E outcome \in QueryOutcomes : PollQueryAny(id, outcome)
    \/ HandleStopBot

SpecStop == InitLifecycle /\ [][NextStop]_vars

-----------------------------------------------------------------------------
(* The arming of a live session during which STOP_BOT may be handled: the    *)
(* tick handler is suspended in perform_initial_purchase and in every        *)
(* submission of initialize_grid_orders                                      *)

NextStopArming ==
    \/ Run
    \/ \E last_price, current_price \in Prices(cfg) :
           PerformInitialPurchase(last_price, current_price)
    \/ \E failing \in SUBSET Levels(cfg) : InitializeGridOrders(failing)
    \/ HandleStopBot

SpecStopArming == InitLifecycle /\ [][NextStopArming]_vars

-----------------------------------------------------------------------------
(* execute_market_order again, this time with the price of each submission.  *)
(* Prices are integers; max_slippage is a percentage.  mkt.prices are the    *)
(* prices submitted, mkt.price the loop's price variable.                    *)

\* the price the caller passes
OriginalPrice == 90000

\* what fetch_mark_price may give: nothing (or an exception), or a mark price
MarkPrices == {None, 90090}

\* _adjust_price: the mark price replaces the price when there is one, then
\* adjustment = max_slippage / max_retries * attempt is applied
adjust_price(c, order_side, price, attempt, mark_price) ==
    LET base == IF mark_price # None THEN mark_price ELSE price
        den == 100 * c.max_retries
    IN  IF order_side = "BUY"
        THEN (base * (den + c.max_slippage * attempt)) \div den
        ELSE (base * (den - c.max_slippage * attempt)) \div den

\* one pass of the retry loop: the order goes out at the loop's price; CLOSED
\* returns; an exception goes to the next attempt with the price as it is;
\* any other status (after the cancels of an OPEN order) reassigns the price
priced_after_place(c, m, status, mark_price) ==
    LET m1 == [m EXCEPT !.prices = Append(@, m.price)]
    IN  IF status = "CLOSED" THEN [m1 EXCEPT !.phase = "returned"]
        ELSE IF status = "error" THEN [m1 EXCEPT !.attempt = @ + 1]
        ELSE [m1 EXCEPT !.price = adjust_price(c, m.side, m.price, m.attempt, mark_price),
                        !.attempt = @ + 1]

PricedCall(order_side, price) ==
    /\ mkt.phase = "none"
    /\ MarketStep([phase |-> "submit", side |-> order_side, original |-> price,
                   price |-> price, attempt |-> 0, prices |-> <<>>])

PricedSubmit(status, mark_price) ==
    /\ mkt.phase = "submit"
    /\ mkt.attempt < cfg.max_retries
    /\ MarketStep(priced_after_place(cfg, mkt, status, mark_price))

PricedFail ==
    /\ mkt.phase = "submit"
    /\ mkt.attempt >= cfg.max_retries
    /\ MarketStep([mkt EXCEPT !.phase = "raised"])

PricedConfigs == [max_retries : 1..MaxRetries, max_slippage : {1}]

InitPriced ==
    /\ cfg \in PricedConfigs
    /\ grid_levels = <<>>
    /\ order_book = <<>>
    /\ bal = [balance |-> 0, crypto_balance |-> 0, total_fees |-> 0,
              reserved_fiat |-> 0, reserved_crypto |-> 0]
    /\ bus = <<>>
    /\ perp = NotBuilt
    /\ mkt = [phase |-> "none", side |-> "BUY", original |-> 0, price |-> 0,
              attempt |-> 0, prices |-> <<>>]
    /\ strat = [running |-> TRUE, session |-> "idle", grid_orders_initialized |-> FALSE,
                last_price |-> None, steps |-> 0, closes |-> 0]
    /\ bot = [is_running |-> FALSE, tracking |-> FALSE, restarts |-> 0]
    /\ exch = {}
    /\ tracker = [pending |-> {}, polls |-> 0]
    /\ tasks = [queue |-> <<>>, awaiting |-> {}, cancelled |-> <<>>]
    /\ hist = [op |-> "init"]

NextPriced ==
    \/ \E order_side \in {"BUY", "SELL"} : PricedCall(order_side, OriginalPrice)
    \/ \E status \in {"CLOSED", "OPEN", "CANCELED", "error"} :
          \E mark_price \in MarkPrices : PricedSubmit(status, mark_price)
    \/ PricedFail

SpecPriced == InitPriced /\ [][NextPriced]_vars

-----------------------------------------------------------------------------
(* A live session in which the market sell of a take profit or stop loss may *)
(* fail                                                                      *)

\* what execute_market_order gives the take-profit / stop-loss sell: an order,
\* no order, or an OrderExecutionFailedError
SellResults == {"order", "none", "error"}

\* variant: the order of a failed sell is added to the book all the same
execute_tp_sl_failed_booked(c, e, current_price, result) ==
    execute_take_profit_or_stop_loss_order(c, e, current_price)

\* execute_take_profit_or_stop_loss_order with the result of the submission:
\* without an order an Exception is raised before add_order, and both except
\* clauses only notify
execute_tp_sl(c, e, current_price, result) ==
    IF result = "order" THEN execute_take_profit_or_stop_loss_order(c, e, current_price)
    ELSE e

\* _handle_take_profit_stop_loss: _handle_take_profit and _handle_stop_loss
\* return True whatever became of the sell, and STOP_BOT is published
handle_tp_sl(c, e, current_price, result) ==
    IF e.bal.crypto_balance = 0 THEN [e |-> e, triggered |-> FALSE]
    ELSE IF handle_take_profit(c, current_price) \/ handle_stop_loss(c, current_price)
    THEN [e |-> Publish(execute_tp_sl(c, e, current_price, result), "STOP_BOT", None),
          triggered |-> TRUE]
    ELSE [e |-> e, triggered |-> FALSE]

\* on_ticker_update with the result the market sell would get
TickSell(current_price, result) ==
    /\ cfg.trading_mode = "LIVE"
    /\ strat.session = "loop"
    /\ strat.steps < MaxSteps
    /\ IF ~strat.running
       THEN /\ Commit(Engine, "tick", current_price, None, None, <<>>)
            /\ strat' = [strat EXCEPT !.steps = @ + 1]
            /\ UNCHANGED <<bot, tracker>>
       ELSE LET a == initialize_grid_orders_once(cfg, Engine, current_price,
                         strat.grid_orders_initialized, strat.last_price)
                t == IF a.initialized
                     THEN handle_tp_sl(cfg, a.e, current_price, result)
                     ELSE [e |-> a.e, triggered |-> FALSE]
            IN  /\ Commit(t.e, IF t.triggered /\ result # "order"
                                THEN "tick_failed" ELSE "tick",
                          current_price, None, None, <<>>)
                /\ IF t.triggered
                   THEN /\ strat' = [stop_strategy(bot, strat) EXCEPT
                                         !.grid_orders_initialized = TRUE, !.steps = @ + 1]
                        /\ bot' = stop_bot(bot)
                        /\ tracker' = stop_tracking(bot, tracker)
                   ELSE /\ strat' = [strat EXCEPT
                                         !.grid_orders_initialized = a.initialized,
                                         !.last_price = current_price, !.steps = @ + 1]
                        /\ UNCHANGED <<bot, tracker>>
    /\ UNCHANGED <<cfg, perp, mkt, exch, tasks>>

LiveConfigs == {c \in SmallConfigs : c.trading_mode = "LIVE"}

NextTakeProfit ==
    \/ Run
    \/ \E p \in Prices(cfg) : \E result \in SellResults : TickSell(p, result)

SpecTakeProfit == InitWith(LiveConfigs) /\ [][NextTakeProfit]_vars

-----------------------------------------------------------------------------
(* A live session at a fee of 50 percent: after the initial purchase and the *)
(* reservations of the initial sells the base balance is below one order size *)

FeeConfigs == {c \in LiveConfigs : c.fee_pct = 50 /\ ~c.tp_enabled}

SpecCredit == InitWith(FeeConfigs) /\ [][NextPlacement]_vars

-----------------------------------------------------------------------------
(* Properties *)

\* the open orders of the book that rest on level l
OpenOrdersOn(l) ==
    {i \in DOMAIN order_book : order_book[i].level = l /\ is_open(order_book[i])}

\* C1: per-level uniqueness: in every reachable state each grid level has at
\* most one open order associated with it
PerLevelUniqueness ==
    \A l \in Levels(cfg) : Cardinality(OpenOrdersOn(l)) <= 1

\* C2: fill idempotence: a second delivery of the ORDER_FILLED event of an
\* order that is already CLOSED changes no balance bucket and no grid level
\* and places no further order
FillIdempotence ==
    [][hist'.dups # hist.dups =>
          /\ bal' = bal
          /\ grid_levels' = grid_levels
          /\ order_book' = order_book]_vars

\* quote cashflow of one fill: - (qty * price + fee) for a buy, qty * price - fee for a sell
Cashflow(order) ==
    LET value == order.amount * order.price
    IN  IF order.side = "BUY" THEN 0 - (value + calculate_fee(cfg, value))
        ELSE value - calculate_fee(cfg, value)

RECURSIVE NetCashflow(_)
\* net quote cashflow of the fills the balance tracker was given
NetCashflow(seen) ==
    IF seen = <<>> THEN 0
    ELSE Cashflow(order_book[Head(seen)]) + NetCashflow(Tail(seen))

BalanceNonNegative ==
    /\ bal.balance >= 0
    /\ bal.crypto_balance >= 0
    /\ bal.reserved_fiat >= 0
    /\ bal.reserved_crypto >= 0
    /\ bal.total_fees >= 0

\* C5: arming - the initial purchase plus the initial grid placement - happens
\* at most once for an engine instance, also after a stop followed by a restart
ArmedAtMostOnce == hist.arms <= 1

\* a step that hands one tick or one bar to the strategy loop
TickStep == strat'.steps = strat.steps + 1

\* C6: arming condition: on a tick or bar with price current_price the engine
\* arms iff it is not yet armed, a previous price last_price exists and
\* last_price <= trigger_price <= current_price or last_price = trigger_price
ArmingCondition ==
    [][TickStep =>
          /\ (hist'.arms = hist.arms + 1) <=>
                 /\ ~strat.grid_orders_initialized
                 /\ strat.last_price # None
                 /\ \/ strat.last_price <= cfg.trigger /\ cfg.trigger <= hist'.price
                    \/ strat.last_price = cfg.trigger
          /\ hist'.arms \in {hist.arms, hist.arms + 1}
          /\ (hist'.arms = hist.arms + 1) <=>
                 (strat'.grid_orders_initialized /\ ~strat.grid_orders_initialized)]_vars

\* the engine armed on a tick below the trigger because the previous price
\* was the trigger price
ArmingConditionWitness ==
    /\ hist.op \in {"tick", "bar"}
    /\ hist.arms = 1
    /\ ~hist.was_initialized
    /\ hist.was_last_price = cfg.trigger
    /\ hist.price < cfg.trigger
    /\ Len(order_book) > 1

\* number of ORDER_FILLED events published for an order
FilledEvents(id) ==
    Cardinality({i \in DOMAIN bus : bus[i].topic = "ORDER_FILLED" /\ bus[i].order = id})

\* C7: status tracker dedup: ORDER_FILLED is published exactly once for a limit
\* order the tracker found CLOSED, however many polls follow while the exchange
\* keeps reporting it CLOSED, and never for an order that is still open locally
StatusTrackerDedup ==
    \A id \in DOMAIN order_book :
        order_book[id].type = "LIMIT" =>
            FilledEvents(id) = IF order_book[id].status = "CLOSED" THEN 1 ELSE 0

\* a second poll has started, nothing of it is queried yet, and the exchange
\* still reports CLOSED an order that an earlier poll published
StatusTrackerDedupWitness ==
    /\ cfg.trading_mode = "LIVE"
    /\ tracker.polls >= 2
    /\ tracker.pending # {}
    /\ tracker.pending = {i \in DOMAIN order_book : is_open(order_book[i])}
    /\ \E id \in exch : order_book[id].status = "CLOSED" /\ FilledEvents(id) = 1

StopEvents(b) == Cardinality({i \in DOMAIN b : b[i].topic = "STOP_BOT"})

MarketSells(orders) ==
    {i \in DOMAIN orders : orders[i].type = "MARKET" /\ orders[i].side = "SELL"}

\* C8: take profit stops the bot exactly once: with take profit enabled, the
\* grid armed and a base balance, the first tick or bar at or above the
\* threshold issues one market sell and publishes STOP_BOT once; afterwards no
\* tick or bar is processed and STOP_BOT is not published again
TakeProfitStopsOnce ==
    [][/\ (/\ TickStep
           /\ cfg.tp_enabled
           /\ strat.running
           /\ strat.grid_orders_initialized
           /\ bal.crypto_balance > 0
           /\ hist'.price >= cfg.tp_threshold)
          => /\ StopEvents(bus') = 1
             /\ Cardinality(MarketSells(order_book')) = 1
             /\ ~strat'.running
             /\ ~bot'.is_running
       /\ StopEvents(bus) >= 1
          => /\ StopEvents(bus') = 1
             /\ MarketSells(order_book') = MarketSells(order_book)
             /\ TickStep => /\ order_book' = order_book
                            /\ bal' = bal
                            /\ grid_levels' = grid_levels
                            /\ bus' = bus
                            /\ strat'.last_price = strat.last_price]_vars

\* a tick at or above the threshold reached the handler after the stop
TakeProfitStopsOnceWitness ==
    /\ StopEvents(bus) = 1
    /\ hist.op = "tick"
    /\ ~hist.was_running
    /\ hist.price >= cfg.tp_threshold
    /\ bal.crypto_balance > 0

\* C10: the backtest fill simulation is complete and exact: of the orders open
\* at the start of simulate_order_fills(high, low) exactly those priced in
\* [low, high] are filled, whatever level they rest on, each with
\* filled = amount, remaining = 0, status CLOSED and one ORDER_FILLED event
BacktestFillExact ==
    hist.op = "bar" =>
        \A i \in 1..Len(hist.pending) :
            LET o == order_book[hist.pending[i]]
            IN  IF hist.low <= o.price /\ o.price <= hist.high
                THEN /\ o.status = "CLOSED"
                     /\ o.filled = o.amount
                     /\ o.remaining = 0
                     /\ FilledEvents(o.id) = 1
                ELSE is_open(o)

\* prices of the open orders of one side
OpenPrices(orders, side) ==
    {orders[i].price : i \in {j \in DOMAIN orders :
        orders[j].type = "LIMIT" /\ orders[j].side = side /\ is_open(orders[j])}}

\* prices of the filled limit orders of one side
FilledPrices(orders, side) ==
    {orders[i].price : i \in {j \in DOMAIN orders :
        orders[j].type = "LIMIT" /\ orders[j].side = side /\ orders[j].status = "CLOSED"}}

\* the scenario's ticks: 104, then 106 (a flat bar), which arms the grid
ArmedAt106 ==
    /\ strat.steps = 2
    /\ hist.op = "bar"
    /\ hist.was_last_price = 104
    /\ hist.price = 106
    /\ hist.high = 106
    /\ hist.low = 106

\* the bar that follows the arming: high 107, low 106
BarAfterArming ==
    /\ ArmedAt106
    /\ TickStep
    /\ hist'.high = 107
    /\ hist'.low = 106

-----------------------------------------------------------------------------
(* Ordering of the simulated fills of one bar *)

\* the ORDER_FILLED events a step appended to the bus for orders of the list ids
NewFills(ids) ==
    SelectSeq(SubSeq(bus', Len(bus) + 1, Len(bus')),
              LAMBDA ev : ev.topic = "ORDER_FILLED"
                          /\ \E i \in 1..Len(ids) : ids[i] = ev.order)

\* the fills a step handed to the balance tracker for orders of the list ids
NewSeen(ids) ==
    SelectSeq(SubSeq(hist'.seen, Len(hist.seen) + 1, Len(hist'.seen)),
              LAMBDA id : \E i \in 1..Len(ids) : ids[i] = id)

\* C11: within one bar, among the ORDER_FILLED events simulate_order_fills
\* publishes for the orders that were open when it was called, no event of a
\* sell order comes before an event of a buy order, and the subscribers were
\* run for these events in the order of their publication.
BuysBeforeSells ==
    [][(hist'.op = "bar" /\ strat'.steps # strat.steps) =>
        LET fills == NewFills(hist'.pending)
        IN  /\ \A i, j \in 1..Len(fills) :
                   (order_book'[fills[i].order].side = "SELL"
                    /\ order_book'[fills[j].order].side = "BUY") => j < i
            /\ NewSeen(hist'.pending) = [i \in 1..Len(fills) |-> fills[i].order]]_vars

\* a bar has just filled a resting buy order and a resting sell order
BuysBeforeSellsWitness ==
    /\ hist.op = "bar"
    /\ \E i, j \in 1..Len(hist.pending) :
           /\ order_book[hist.pending[i]].side = "BUY"
           /\ order_book[hist.pending[j]].side = "SELL"
           /\ order_book[hist.pending[i]].status = "CLOSED"
           /\ order_book[hist.pending[j]].status = "CLOSED"
           /\ \E k \in 1..Len(bus) : bus[k] = [topic |-> "ORDER_FILLED", order |-> hist.pending[i]]
           /\ \E k \in 1..Len(bus) : bus[k] = [topic |-> "ORDER_FILLED", order |-> hist.pending[j]]

-----------------------------------------------------------------------------
(* Sell fills *)

\* C12: a sell fill of quantity q at price p lowers base_balance +
\* reserved_base by exactly q and raises quote_balance by q * p - fee; when
\* less than q was reserved, reserved_base becomes 0 and base_balance is
\* lowered by the shortfall.
SellFillConservation ==
    [][\A q \in TrackerQuantities, p \in Prices(cfg) :
          TrackerFill("SELL", q, p) =>
            /\ bal'.crypto_balance + bal'.reserved_crypto
                  = bal.crypto_balance + bal.reserved_crypto - q
            /\ bal'.balance = bal.balance + q * p - calculate_fee(cfg, q * p)
            /\ bal.reserved_crypto < q =>
                  /\ bal'.reserved_crypto = 0
                  /\ bal'.crypto_balance
                        = bal.crypto_balance - (q - bal.reserved_crypto)]_vars

-----------------------------------------------------------------------------
(* Reservations and the open orders *)

\* what the open grid orders of one side of the first n orders had reserved:
\* amount * price for a buy order, amount for a sell order
RECURSIVE OpenReservation(_, _, _)
OpenReservation(orders, side, n) ==
    IF n = 0 THEN 0
    ELSE LET o == orders[n]
             own == IF o.side = side /\ is_open(o) /\ o.level # None
                    THEN IF side = "BUY" THEN o.amount * o.price ELSE o.amount
                    ELSE 0
         IN  own + OpenReservation(orders, side, n - 1)

\* no published fill waits for its subscribers and no placement is under way
NoHandlerActive == tasks.queue = <<>> /\ tasks.awaiting = {}

\* C13: whenever no handler is in the middle of a placement, reserved_quote
\* is the sum of amount * price over the open grid buy orders and
\* reserved_base is the sum of amount over the open grid sell orders, so
\* nothing stays reserved for an order that is no longer open.
ReservedTracksOpenOrders ==
    (strat.session # "idle" /\ NoHandlerActive) =>
        /\ bal.reserved_fiat = OpenReservation(order_book, "BUY", Len(order_book))
        /\ bal.reserved_crypto = OpenReservation(order_book, "SELL", Len(order_book))

-----------------------------------------------------------------------------
(* Failing reservations *)

\* C14: reserve_funds_for_buy(a) with a > quote_balance raises
\* InsufficientBalanceError, reserve_funds_for_sell(q) with q > base_balance
\* raises InsufficientCryptoBalanceError, and in both cases the five buckets
\* keep their values.
ReservationFailureKeepsState ==
    [][/\ \A q \in TrackerQuantities, p \in Prices(cfg) :
            (TrackerReserveBuy(q * p) /\ q * p > bal.balance) =>
                (hist'.op = "InsufficientBalanceError" /\ bal' = bal)
       /\ \A q \in TrackerQuantities :
            (TrackerReserveSell(q) /\ q > bal.crypto_balance) =>
                (hist'.op = "InsufficientCryptoBalanceError" /\ bal' = bal)]_vars

\* a buy reservation has just failed on a tracker that holds earlier reservations
ReservationFailureKeepsStateWitness ==
    /\ hist.op = "InsufficientBalanceError"
    /\ bal.reserved_fiat > 0
    /\ bal.balance > 0

-----------------------------------------------------------------------------
(* Stopping *)

-----------------------------------------------------------------------------
(* Restarting *)

\* C16: after restart(), whatever the bot's state before (never started,
\* running, stopped), the bot is running, the tracker is tracking and the
\* strategy's run loop has been started again; and is_running is never set
\* while the strategy's run loop was not started.
RestartStartsLoop ==
    [][/\ HandleStartBot =>
            /\ bot'.is_running /\ bot'.tracking
            /\ strat'.running /\ strat'.session = "loop"
       /\ bot'.is_running => strat'.session # "idle"]_vars

-----------------------------------------------------------------------------
(* Health *)

\* C17: the overall health is true iff the strategy is running and the
\* exchange status string is "ok".
HealthIsConjunction ==
    hist.op = "health" =>
        (hist.health.overall <=>
            (hist.health.strategy /\ hist.health.exchange_status = "ok"))

-----------------------------------------------------------------------------
(* Repeated START_BOT *)

\* C18: handling START_BOT while the bot and its strategy loop are running
\* leaves the session untouched: the strategy is not stopped and relaunched
\* and the tracker keeps tracking.
StartBotIdempotent ==
    [][(HandleStartBot /\ bot.is_running /\ strat.running /\ strat.session = "loop") =>
        /\ strat' = strat
        /\ tracker' = tracker
        /\ bot'.is_running /\ bot'.tracking]_vars

-----------------------------------------------------------------------------
(* The arithmetic ladder *)

\* bottom < top, both positive, at least two grids, ARITHMETIC spacing
ValidArithmetic(g) ==
    /\ g.spacing_type = "ARITHMETIC"
    /\ 0 < g.bottom_range /\ g.bottom_range < g.top_range
    /\ g.num_grids >= 2

\* the ladder has num_grids strictly increasing prices bottom + i * step and
\* the central price (top + bottom) / 2, all times PriceScale
LadderWithStep(g, step) ==
    /\ perp.error = "none"
    /\ Len(perp.price_grids) = g.num_grids
    /\ \A i \in 1..g.num_grids :
          perp.price_grids[i] = g.bottom_range * PriceScale(g.num_grids) + (i - 1) * step
    /\ \A i \in 1..(g.num_grids - 1) : perp.price_grids[i] < perp.price_grids[i + 1]
    /\ 2 * perp.central_price = (g.top_range + g.bottom_range) * PriceScale(g.num_grids)

\* C19: for ARITHMETIC spacing, valid bottom < top, num_grids >= 2 and any
\* leverage, the ladder has num_grids strictly increasing prices bottom +
\* i * step with step = (top - bottom) / (num_grids - 1), its first price is
\* bottom and its last price is top, and central_price = (top + bottom) / 2.
ArithmeticLadder ==
    (perp.built /\ ValidArithmetic(cfg)) =>
        /\ LadderWithStep(cfg, 20 * (cfg.top_range - cfg.bottom_range))
        /\ perp.price_grids[1] = cfg.bottom_range * PriceScale(cfg.num_grids)
        /\ perp.price_grids[cfg.num_grids] = cfg.top_range * PriceScale(cfg.num_grids)

\* C19 as amended: the step is (top - bottom) / (num_grids - 1) times
\* 1 + (leverage - 1) / 10; the first price is bottom, the last price is
\* bottom + (top - bottom) * (1 + (leverage - 1) / 10), which is top exactly
\* when leverage = 1; central_price = (top + bottom) / 2 whatever the leverage.
ArithmeticLadderAmended ==
    (perp.built /\ ValidArithmetic(cfg)) =>
        /\ LadderWithStep(cfg, 2 * (cfg.top_range - cfg.bottom_range) * (9 + cfg.leverage))
        /\ perp.price_grids[1] = cfg.bottom_range * PriceScale(cfg.num_grids)
        /\ 10 * perp.price_grids[cfg.num_grids]
             = PriceScale(cfg.num_grids)
                 * (10 * cfg.bottom_range
                    + (cfg.top_range - cfg.bottom_range) * (9 + cfg.leverage))
        /\ (perp.price_grids[cfg.num_grids] = cfg.top_range * PriceScale(cfg.num_grids))
             <=> cfg.leverage = 1

\* the ladder 100..110 with 11 grids was built with leverage 11: step 2, top 120
ArithmeticLadderWitness ==
    /\ perp.built
    /\ ValidArithmetic(cfg)
    /\ cfg.leverage = 11
    /\ perp.price_grids[11] = 120 * PriceScale(11)
    /\ perp.central_price = 105 * PriceScale(11)

-----------------------------------------------------------------------------
(* Invalid geometry *)

\* C20: when bottom <= 0, top <= bottom or the spacing type is unrecognized,
\* the construction fails with an error and no ladder is produced.
InvalidGeometryRejected ==
    (perp.built /\ (\/ cfg.bottom_range <= 0
                    \/ cfg.top_range <= cfg.bottom_range
                    \/ cfg.spacing_type \notin {"ARITHMETIC", "GEOMETRIC"})) =>
        (perp.error # "none" /\ perp.price_grids = <<>>)

-----------------------------------------------------------------------------
(* Market orders of the live execution strategy *)

\* C21: the quantity filled over all attempts of one execute_market_order
\* call never exceeds the quantity asked for (after a partial fill only the
\* residual is submitted again).
PartialFillRetriesResidual == mkt.filled_total <= mkt.quantity

\* at most max_retries orders and cancel attempts; only a CLOSED order is
\* returned, at once; the error is raised only after max_retries attempts
\* none of which came back CLOSED; a failed cancel is followed by the next
\* attempt
MarketOrderSafe ==
    /\ Len(mkt.requests) <= cfg.max_retries
    /\ mkt.cancels <= cfg.max_retries
    /\ \A i \in 1..Len(mkt.outcomes) :
          mkt.outcomes[i] = "CLOSED" => (i = Len(mkt.outcomes) /\ mkt.phase = "returned")
    /\ mkt.phase = "returned" =>
          (mkt.order.status = "CLOSED" /\ mkt.outcomes[Len(mkt.outcomes)] = "CLOSED")
    /\ mkt.phase = "raised" =>
          /\ Len(mkt.requests) = cfg.max_retries
          /\ \A i \in 1..Len(mkt.outcomes) : mkt.outcomes[i] # "CLOSED"
    /\ (mkt.phase = "submit" /\ mkt.attempt < cfg.max_retries) =>
          Len(mkt.requests) = mkt.attempt

\* C22: execute_market_order submits at most max_retries orders, returns only
\* a CLOSED order and as soon as one comes back, raises only after
\* max_retries attempts without one, is not ended early by a failed cancel,
\* and every call terminates.
BoundedMarketRetries ==
    /\ []MarketOrderSafe
    /\ [](mkt.phase # "none" => <>(mkt.phase \in {"returned", "raised"}))

\* a call returned a CLOSED order on its last attempt after an attempt whose
\* partial fill could not be cancelled
BoundedMarketRetriesWitness ==
    /\ mkt.phase = "returned"
    /\ cfg.max_retries = 3
    /\ Len(mkt.requests) = 3
    /\ mkt.outcomes[2] = "OPEN"
    /\ mkt.cancels = 3

-----------------------------------------------------------------------------
(* Pairing of grid levels *)

\* the orders a step adds to the book
NewOrders == (DOMAIN order_book') \ (DOMAIN order_book)

\* C23: the paired buy of a filled sell is placed on the stored
\* paired_buy_level if a buy can be placed there, else on the greatest level
\* below on which a buy can be placed; it is never placed on a level on
\* which can_place_order(level, BUY) is false.
SellFillPairing ==
    [][/\ hist'.op = "handle" =>
            \A t \in tasks'.awaiting \ tasks.awaiting :
                t.kind = "buy" =>
                    LET stored == grid_levels'[t.source].paired_buy_level
                    IN  /\ can_place_order(grid_levels', t.target, "BUY")
                        /\ (stored # None /\ can_place_order(grid_levels', stored, "BUY"))
                               => t.target = stored
                        /\ ~(stored # None /\ can_place_order(grid_levels', stored, "BUY"))
                               => \A l \in Levels(cfg) :
                                     (l < t.source /\ can_place_order(grid_levels', l, "BUY"))
                                        => l <= t.target
       /\ hist'.op = "resume" =>
            \A i \in NewOrders :
                order_book'[i].side = "BUY" =>
                    can_place_order(grid_levels, order_book'[i].level, "BUY")]_vars

\* the submissions a step of a fill handler starts to await
NewAwaits == tasks'.awaiting \ tasks.awaiting

\* the step in which the handlers of the oldest published fill start
HandlesFill == tasks.queue # <<>> /\ tasks'.queue = Tail(tasks.queue)

\* C24: once the paired sell of a buy filled at L_b is placed at L_s, the
\* two levels reference each other, and when that sell fills (and the
\* validator accepts the quantity) the next buy is placed at L_b.
PairingRoundTrip ==
    [][/\ hist'.op = "resume" =>
            \A i \in NewOrders :
                order_book'[i].side = "SELL" =>
                    \E t \in tasks.awaiting \ tasks'.awaiting :
                        /\ t.kind = "sell" /\ t.target = order_book'[i].level
                        /\ grid_levels'[t.source].paired_sell_level = t.target
                        /\ grid_levels'[t.target].paired_buy_level = t.source
       /\ HandlesFill =>
            LET order == order_book[Head(tasks.queue)]
                L_b == IF order.level = None THEN None
                       ELSE grid_levels[order.level].paired_buy_level
            IN  (/\ order.side = "SELL" /\ L_b # None
                 /\ grid_levels[L_b].paired_sell_level = order.level
                 /\ ~buy_quantity_rejected(bal'.balance, order.amount, PriceOf(cfg, L_b)))
                    => \E t \in NewAwaits : t.kind = "buy" /\ t.target = L_b]_vars

-----------------------------------------------------------------------------
(* Level state machine *)

\* the SIMPLE_GRID transitions of one level
ListedTransitions ==
    {<<"READY_TO_BUY", "WAITING_FOR_BUY_FILL">>,
     <<"WAITING_FOR_BUY_FILL", "READY_TO_SELL">>,
     <<"READY_TO_SELL", "WAITING_FOR_SELL_FILL">>,
     <<"WAITING_FOR_SELL_FILL", "READY_TO_BUY">>}

\* every state change of a level in a step of a live session (one handler up
\* to its next suspension) is a listed transition
LevelChangesListed ==
    cfg.trading_mode = "LIVE" =>
        \A l \in Levels(cfg) :
            grid_levels'[l].state # grid_levels[l].state =>
                <<grid_levels[l].state, grid_levels'[l].state>> \in ListedTransitions

\* an order booked by a resuming fill handler found its level READY for its side
PendingFromReady ==
    hist'.op = "resume" =>
        \A i \in NewOrders :
            can_place_order(grid_levels, order_book'[i].level, order_book'[i].side)

\* the handler of a sell fill leaves the order's level READY_TO_BUY
SellFillLeavesReadyToBuy ==
    HandlesFill =>
        LET order == order_book[Head(tasks.queue)]
        IN  (order.side = "SELL" /\ order.level # None) =>
                grid_levels'[order.level].state = "READY_TO_BUY"

\* C25: in a SIMPLE_GRID session every change of a level's state is one of
\* the four listed transitions, a level is marked pending for a side only
\* from the matching READY state, and a sell fill leaves its level
\* READY_TO_BUY.
StateMachineConformance ==
    [][LevelChangesListed /\ PendingFromReady /\ SellFillLeavesReadyToBuy]_vars

\* C26: when the order manager receives ORDER_CANCELLED for a grid order, the
\* order's level leaves its WAITING state and returns to the READY state it
\* had before the order was placed.
CancelRestoresReady ==
    [][(tasks.cancelled # <<>> /\ tasks'.cancelled = Tail(tasks.cancelled)) =>
          LET order == order_book[Head(tasks.cancelled)]
          IN  order.level # None =>
                  grid_levels'[order.level].state =
                      IF order.side = "BUY" THEN "READY_TO_BUY" ELSE "READY_TO_SELL"]_vars

-----------------------------------------------------------------------------
(* Arming *)

\* the ORDER_FILLED events of a bus log that are about orders without a level
NonGridFills(log, orders) ==
    {i \in DOMAIN log : log[i].topic = "ORDER_FILLED" /\ orders[log[i].order].level = None}

\* C27: an ORDER_FILLED event for an order without a grid level (here the
\* initial purchase of a backtest, the one such event the engine publishes)
\* changes no level state and no pairing link, adds nothing to the order book
\* beyond the purchase itself and places no order.
NonGridFillIgnored ==
    [][(hist'.op = "purchase" /\ hist.op = "run"
        /\ NonGridFills(bus', order_book') # NonGridFills(bus, order_book')) =>
          /\ grid_levels' = grid_levels
          /\ \A i \in NewOrders : order_book'[i].type = "MARKET" /\ order_book'[i].level = None
          /\ Cardinality(NewOrders) = 1
          /\ bal'.reserved_fiat = bal.reserved_fiat
          /\ bal'.reserved_crypto = bal.reserved_crypto]_vars

\* the initial purchase of a backtest was filled and its event delivered
NonGridFillIgnoredWitness ==
    /\ hist.op = "purchase"
    /\ cfg.trading_mode = "BACKTEST"
    /\ NonGridFills(bus, order_book) # {}
    /\ Len(order_book) = 1
    /\ order_book[1].status = "CLOSED"
    /\ hist.seen = <<1>>

-----------------------------------------------------------------------------
(* Failures of a placement *)

\* the submissions whose handler ends in a step because the submission failed
FailedAwaits ==
    IF hist'.op = "failed" THEN tasks.awaiting \ tasks'.awaiting ELSE {}

\* C28: when the paired order of a fill cannot be placed (the validator
\* rejects the quantity, or the submission raises or returns no order) the
\* handler ends normally, the filled level keeps its state after the fill,
\* the balance effects of the fill stay applied, nothing is reserved and no
\* level is marked pending for the paired order.
PairedFailureKeepsFill ==
    [][/\ \A t \in FailedAwaits :
            /\ grid_levels' = grid_levels
            /\ bal' = bal
            /\ order_book' = order_book
            /\ hist'.seen = hist.seen
       /\ (HandlesFill /\ NewAwaits = {}) =>
            LET id == Head(tasks.queue)
                order == RemoteOrder(order_book[id], {id})
            IN  order.level # None =>
                    /\ grid_levels' = complete_order(grid_levels, order.level, order.side)
                    /\ bal' = update_balance_on_order_completion(cfg, bal, order)
                    /\ order_book' = order_book]_vars

\* the submission of the paired sell of a filled buy failed: the buy's level
\* is READY_TO_SELL, the fill is accounted for, no sell is reserved or open
PairedFailureKeepsFillWitness ==
    /\ hist.op = "failed"
    /\ tasks.awaiting = {}
    /\ bal.reserved_crypto = 0
    /\ \E i \in DOMAIN order_book :
          /\ order_book[i].side = "BUY" /\ order_book[i].type = "LIMIT"
          /\ order_book[i].status = "CLOSED"
          /\ \E k \in DOMAIN hist.seen : hist.seen[k] = i
          /\ grid_levels[order_book[i].level].state = "READY_TO_SELL"
          /\ bal.crypto_balance >= order_book[i].amount
    /\ \A i \in DOMAIN order_book : order_book[i].side = "SELL" => ~is_open(order_book[i])

\* the levels on which a step books an order
NewOrderLevels == {order_book'[i].level : i \in NewOrders}

\* the levels on which initialize_grid_orders books an order when no
\* submission fails
LevelsOfFullLadder ==
    LET full == initialize_grid_orders(cfg, Engine, hist.price)
    IN  {full.orders[i].level : i \in (DOMAIN full.orders) \ (DOMAIN order_book)}

RECURSIVE SumOver(_, _, _)
\* the sum of Value(order) over the orders with the ids in the set
SumOver(orders, ids, in_quote) ==
    IF ids = {} THEN 0
    ELSE LET i == CHOOSE x \in ids : TRUE
         IN  (IF in_quote THEN orders[i].amount * orders[i].price ELSE orders[i].amount)
             + SumOver(orders, ids \ {i}, in_quote)

\* C29: in initialize_grid_orders a level whose validation, submission or
\* reservation fails keeps its READY state, has nothing reserved and no book
\* entry, and the remaining buy and sell levels are still attempted.
InitializationIsolatesFailures ==
    [][(hist.op = "purchase" /\ hist'.op = "initialize") =>
          LET failing == {hist'.pending[k] : k \in DOMAIN hist'.pending}
          IN  /\ NewOrderLevels \cap failing = {}
              /\ \A l \in Levels(cfg) \ NewOrderLevels : grid_levels'[l] = grid_levels[l]
              /\ LevelsOfFullLadder \ failing \subseteq NewOrderLevels
              /\ bal'.reserved_fiat = bal.reserved_fiat
                    + SumOver(order_book', {i \in NewOrders : order_book'[i].side = "BUY"}, TRUE)
              /\ bal'.reserved_crypto = bal.reserved_crypto
                    + SumOver(order_book', {i \in NewOrders : order_book'[i].side = "SELL"}, FALSE)
              /\ \A i \in NewOrders : is_open(order_book'[i])]_vars

\* the submission for the lowest buy level failed; the next buy level and the
\* top sell level received their orders
InitializationIsolatesFailuresWitness ==
    /\ hist.op = "initialize"
    /\ hist.pending = <<1>>
    /\ hist.price = 4
    /\ grid_levels[1].state = "READY_TO_BUY"
    /\ grid_levels[2].state = "WAITING_FOR_BUY_FILL"
    /\ grid_levels[4].state = "WAITING_FOR_SELL_FILL"
    /\ OpenOrdersOn(1) = {}
    /\ bal.reserved_fiat > 0 /\ bal.reserved_crypto > 0

\* C30: after initialize_grid_orders(current_price) the initial buy orders
\* are on buy-set levels priced below current_price and the initial sell
\* orders on sell-set levels priced above it (none at current_price); each
\* such level is WAITING for its side, its funds are reserved and its open
\* order is in the book, mapped to the level.
InitialLadderSelection ==
    [][(hist.op = "purchase" /\ hist'.op = "initialize") =>
          /\ \A i \in NewOrders :
                LET o == order_book'[i]
                IN  /\ o.level \in Levels(cfg) /\ o.price = PriceOf(cfg, o.level)
                    /\ o.type = "LIMIT" /\ is_open(o)
                    /\ get_grid_level_for_order(order_book', i) = o.level
                    /\ o.side = "BUY" =>
                          /\ 2 * o.price <= central_price_x2(cfg)
                          /\ o.price < hist'.price
                          /\ grid_levels'[o.level].state = "WAITING_FOR_BUY_FILL"
                    /\ o.side = "SELL" =>
                          /\ 2 * o.price > central_price_x2(cfg)
                          /\ o.price > hist'.price
                          /\ grid_levels'[o.level].state = "WAITING_FOR_SELL_FILL"
          /\ \A i, j \in NewOrders : order_book'[i].level = order_book'[j].level => i = j
          /\ \A l \in Levels(cfg) :
                grid_levels'[l].state \in {"WAITING_FOR_BUY_FILL", "WAITING_FOR_SELL_FILL"}
                    => l \in NewOrderLevels
          /\ bal'.reserved_fiat =
                SumOver(order_book', {i \in NewOrders : order_book'[i].side = "BUY"}, TRUE)
          /\ bal'.reserved_crypto =
                SumOver(order_book', {i \in NewOrders : order_book'[i].side = "SELL"}, FALSE)]_vars

\* armed at price 3 with every submission accepted: a buy below, sells above,
\* nothing on the buy-set level priced 3
InitialLadderSelectionWitness ==
    /\ hist.op = "initialize"
    /\ hist.pending = <<>>
    /\ hist.price = 3
    /\ cfg.fee_pct = 0
    /\ OpenOrdersOn(1) # {} /\ OpenOrdersOn(2) = {}
    /\ OpenOrdersOn(3) # {} /\ OpenOrdersOn(4) # {}
    /\ grid_levels[2].state = "READY_TO_BUY"
    /\ bal.reserved_fiat > 0 /\ bal.reserved_crypto > 0

-----------------------------------------------------------------------------
(* Order status tracker *)

\* the step in which the query task of one polled order ends
QueryEnds ==
    /\ hist'.op = "query"
    /\ hist'.pending # <<>>
    /\ hist'.pending[1] \in tracker.pending
    /\ tracker'.pending # tracker.pending

\* the events a step publishes
NewEvents == {bus'[i] : i \in (DOMAIN bus') \ (DOMAIN bus)}

\* C31: for each polled order the tracker publishes ORDER_FILLED iff the
\* remote status is CLOSED and ORDER_CANCELLED iff it is CANCELED, with the
\* local status already updated; for OPEN (filled or not) and UNKNOWN it
\* publishes nothing and leaves the local status as it was.
StatusToEvent ==
    [][QueryEnds =>
          LET id == hist'.pending[1]
              status == hist'.remote
          IN  /\ Len(bus') >= Len(bus) /\ SubSeq(bus', 1, Len(bus)) = bus
              /\ ([topic |-> "ORDER_FILLED", order |-> id] \in NewEvents)
                    <=> status = "CLOSED"
              /\ ([topic |-> "ORDER_CANCELLED", order |-> id] \in NewEvents)
                    <=> status = "CANCELED"
              /\ Len(bus') <= Len(bus) + 1
              /\ \A ev \in NewEvents : ev.order = id
              /\ status = "CLOSED" =>
                    (order_book'[id].status = "CLOSED" /\ tasks'.queue = Append(tasks.queue, id))
              /\ status = "CANCELED" =>
                    (order_book'[id].status = "CANCELED"
                     /\ tasks'.cancelled = Append(tasks.cancelled, id))
              /\ status \in {"OPEN", "UNKNOWN"} =>
                    (bus' = bus /\ order_book' = order_book /\ tasks' = tasks)
              /\ \A i \in DOMAIN order_book : i # id => order_book'[i] = order_book[i]]_vars

\* one order was reported CLOSED and another CANCELED: both events are on
\* the bus and both local statuses are updated
StatusToEventWitness ==
    /\ hist.op = "query"
    /\ hist.remote = "CANCELED"
    /\ order_book[hist.pending[1]].status = "CANCELED"
    /\ bus[Len(bus)] = [topic |-> "ORDER_CANCELLED", order |-> hist.pending[1]]
    /\ \E i \in DOMAIN bus :
          bus[i].topic = "ORDER_FILLED" /\ order_book[bus[i].order].status = "CLOSED"
    /\ \E i \in DOMAIN order_book : is_open(order_book[i])

\* C33: when the query of one open order fails, that order's local status is
\* unchanged and no event is published for it, the other orders of the poll
\* are still to be processed and the tracker keeps polling.
QueryErrorIsolated ==
    [][(QueryEnds /\ hist'.remote = "error") =>
          /\ order_book' = order_book
          /\ bus' = bus
          /\ tasks' = tasks
          /\ tracker'.pending = tracker.pending \ {hist'.pending[1]}
          /\ tracker'.polls = tracker.polls
          /\ bot' = bot]_vars

\* a query failed while another order of the same poll was still to be
\* queried
QueryErrorIsolatedWitness ==
    /\ hist.op = "query"
    /\ hist.remote = "error"
    /\ tracker.pending # {}
    /\ bot.tracking
    /\ is_open(order_book[hist.pending[1]])
    /\ \A i \in tracker.pending : is_open(order_book[i])

\* C32: when stop_tracking returns the monitoring task has ended and every
\* query task of the running poll has ended or been cancelled; afterwards no
\* poll starts and no query task of an earlier poll queries the exchange or
\* handles an answer.
StopDrainsTracker ==
    [][/\ (hist'.stops > hist.stops /\ bot.is_running) =>
            (~bot'.tracking /\ tracker'.pending = {})
       /\ (~bot.tracking /\ ~bot'.tracking) =>
            (tracker' = tracker /\ order_book' = order_book /\ bus' = bus)]_vars

\* the session was stopped after its first poll had started, with orders
\* still open on the exchange
StopDrainsTrackerWitness ==
    /\ hist.op = "stop"
    /\ hist.stops = 1
    /\ ~bot.tracking /\ ~bot.is_running
    /\ tracker.polls = 1
    /\ tracker.pending = {}
    /\ Cardinality({i \in DOMAIN order_book : is_open(order_book[i])}) >= 2
    /\ hist.pending # <<>> /\ hist.remote = "OPEN"

-----------------------------------------------------------------------------
(* Stop flag *)

\* C34: once the strategy's stop flag is set (_running is False) no further
\* order is submitted, also when the stop arrives while a tick is being
\* handled, between the initial purchase and the grid placement.
StopFlagHonoured ==
    [][~strat.running => NewOrders = {}]_vars

RelativePrice(c, order_side, price, k) ==
    LET den == 100 * c.max_retries
    IN  IF order_side = "BUY" THEN (price * (den + c.max_slippage * k)) \div den
        ELSE (price * (den - c.max_slippage * k)) \div den

\* C36: the k-th retry of a market order (k = 1 for the first retry) goes out
\* at the original price moved by max_slippage * k / max_retries, up for a
\* buy and down for a sell, relative to the original price.
RetryPriceRelative ==
    \A k \in 1..(Len(mkt.prices) - 1) :
        mkt.prices[k + 1] = RelativePrice(cfg, mkt.side, mkt.original, k)

\* a step that is one perform_initial_purchase call
Purchases == hist'.op = "purchase" /\ strat.last_price = None /\ strat'.last_price # None

\* C37: perform_initial_purchase credits the purchase exactly once: in a
\* backtest through one ORDER_FILLED event handled by the balance tracker,
\* in a live session through update_after_initial_purchase without an event;
\* with a quantity of zero or less no order is submitted and balances and
\* order book stay as they are.
InitialPurchaseCreditedOnce ==
    [][Purchases =>
          LET q == get_initial_order_quantity(bal.balance, bal.crypto_balance, hist'.price)
              id == Len(order_book) + 1
              fee == calculate_fee(cfg, q * hist'.price)
          IN  IF q <= 0
              THEN order_book' = order_book /\ bal' = bal /\ bus' = bus
                   /\ hist'.seen = hist.seen
              ELSE /\ NewOrders = {id}
                   /\ order_book'[id].type = "MARKET" /\ order_book'[id].side = "BUY"
                   /\ order_book'[id].amount = q /\ order_book'[id].level = None
                   /\ hist'.seen = Append(hist.seen, id)
                   /\ bal'.crypto_balance = bal.crypto_balance + q
                   /\ bal'.balance + bal'.reserved_fiat
                        = bal.balance + bal.reserved_fiat - (q * hist'.price + fee)
                   /\ bal'.total_fees = bal.total_fees + fee
                   /\ bal'.reserved_crypto = bal.reserved_crypto
                   /\ IF cfg.trading_mode = "BACKTEST"
                      THEN bus' = Append(bus, [topic |-> "ORDER_FILLED", order |-> id])
                      ELSE bus' = bus]_vars

\* a live purchase at a fee, credited once and without an event
InitialPurchaseCreditedOnceWitness ==
    /\ hist.op = "purchase"
    /\ cfg.trading_mode = "LIVE" /\ cfg.fee_pct > 0
    /\ Len(order_book) = 1 /\ order_book[1].type = "MARKET"
    /\ bal.crypto_balance = order_book[1].amount /\ bal.crypto_balance > 0
    /\ bal.balance = cfg.initial_balance
                        - (order_book[1].amount * order_book[1].price + bal.total_fees)
    /\ hist.seen = <<1>> /\ bus = <<>>

\* the submissions that a step sees return with an accepted order
Accepted == IF hist'.op = "resume" THEN tasks.awaiting \ tasks'.awaiting ELSE {}

\* C38: every limit order the execution strategy accepted is recorded in the
\* order book, with its grid level marked pending and its funds reserved,
\* also when fill handlers run concurrently in a live session.
NoUntrackedOrder ==
    [][\A t \in Accepted :
          /\ \E i \in NewOrders :
                /\ order_book'[i].level = t.target
                /\ order_book'[i].amount = t.quantity
                /\ order_book'[i].side = (IF t.kind = "buy" THEN "BUY" ELSE "SELL")
          /\ grid_levels'[t.target].state =
                (IF t.kind = "buy" THEN "WAITING_FOR_BUY_FILL" ELSE "WAITING_FOR_SELL_FILL")
          /\ IF t.kind = "buy"
             THEN bal'.reserved_fiat = bal.reserved_fiat + t.quantity * PriceOf(cfg, t.target)
             ELSE bal'.reserved_crypto = bal.reserved_crypto + t.quantity]_vars

NewGridFills ==
    {i \in (DOMAIN bus') \ (DOMAIN bus) :
        bus'[i].topic = "ORDER_FILLED" /\ order_book'[bus'[i].order].level # None}

\* C40: an order placed as the pair of a fill during a simulate_order_fills
\* call is not filled in that call, even when its price lies in [low, high];
\* within one bar a grid level sees at most one fill and no order is filled
\* twice.
PairedOrdersWaitForNextBar ==
    [][(hist'.op = "bar" /\ strat'.steps = strat.steps + 1) =>
          LET snapshot == {hist'.pending[k] : k \in DOMAIN hist'.pending}
          IN  /\ \A i \in NewGridFills : bus'[i].order \in snapshot
              /\ \A id \in (DOMAIN order_book') \ snapshot :
                    (id \in NewOrders /\ order_book'[id].type = "LIMIT")
                        => is_open(order_book'[id]) /\ order_book'[id].filled = 0
              /\ \A i, j \in NewGridFills :
                    i # j => /\ bus'[i].order # bus'[j].order
                             /\ order_book'[bus'[i].order].level
                                  # order_book'[bus'[j].order].level]_vars

\* after a bar: a paired buy placed during the bar is still open though it
\* lies on a buy level that the bar crossed
PairedOrdersWaitForNextBarWitness ==
    /\ hist.op = "bar"
    /\ \E id \in DOMAIN order_book :
          /\ \A k \in DOMAIN hist.pending : hist.pending[k] # id
          /\ order_book[id].type = "LIMIT" /\ order_book[id].side = "BUY"
          /\ is_open(order_book[id])
          /\ order_book[id].price
                \in crossed_levels(cfg, sorted_buy_grids(cfg), hist.high, hist.low)
          /\ \E k \in DOMAIN hist.pending :
                /\ order_book[hist.pending[k]].side = "SELL"
                /\ order_book[hist.pending[k]].status = "CLOSED"

====
